---- MODULE Spec2Model ----
(***************************************************************************)
(* Job-orchestration client of the timetable scheduler front end:          *)
(* the transport's response interceptor, makeRequestWithRetry,             *)
(* generateTimetable, pollForCompletion.checkStatus and the progress       *)
(* observer the UI hands to generateTimetable.                             *)
(*                                                                         *)
(* Strings the code inspects (includes, toLowerCase, concatenation) are    *)
(* sequences of one-character strings; strings the code only compares or   *)
(* passes on are TLA+ strings.                                             *)
(***************************************************************************)
EXTENDS Integers, Sequences, FiniteSets, TLC

\* ------------------------------------------------------------------------
\* Bounds of the model (not program constants)

\* largest retry budget handed to makeRequestWithRetry in RetrySpec
MaxRetries == 4

\* ------------------------------------------------------------------------
\* String primitives

UpperCase ==
    <<"A","B","C","D","E","F","G","H","I","J","K","L","M",
      "N","O","P","Q","R","S","T","U","V","W","X","Y","Z">>

LowerCase ==
    <<"a","b","c","d","e","f","g","h","i","j","k","l","m",
      "n","o","p","q","r","s","t","u","v","w","x","y","z">>

\* String.prototype.toLowerCase on one character
LowerChar(c) ==
    IF \E k \in 1..26 : UpperCase[k] = c
    THEN LowerCase[CHOOSE k \in 1..26 : UpperCase[k] = c]
    ELSE c

\* String.prototype.toLowerCase
ToLowerCase(s) ==
    [k \in 1..Len(s) |-> LowerChar(s[k])]

\* String.prototype.includes
Includes(s, sub) ==
    \E k \in 0..(Len(s) - Len(sub)) : SubSeq(s, k + 1, k + Len(sub)) = sub

Digits ==
    <<"0","1","2","3","4","5","6","7","8","9">>

RECURSIVE NumToString(_)
\* template-literal conversion of a non-negative integer
NumToString(n) ==
    IF n < 10 THEN <<Digits[n + 1]>>
    ELSE NumToString(n \div 10) \o <<Digits[(n % 10) + 1]>>

\* a || b on strings: the empty string is falsy
OrElse(a, b) ==
    IF a # <<>> THEN a ELSE b

\* ------------------------------------------------------------------------
\* Message texts of the source

\* setupProxy.js:117: 'Cannot reach backend server. Ensure it is running and the API base URL is correct.'
MsgCannotReach ==
    <<"C","a","n","n","o","t"," ","r","e","a","c","h"," ","b","a","c","k",
      "e","n","d"," ","s","e","r","v","e","r","."," ","E","n","s","u","r",
      "e"," ","i","t"," ","i","s"," ","r","u","n","n","i","n","g"," ","a",
      "n","d"," ","t","h","e"," ","A","P","I"," ","b","a","s","e"," ","U",
      "R","L"," ","i","s"," ","c","o","r","r","e","c","t",".">>

\* setupProxy.js:126: 'CORS error: Backend did not allow this origin.'
MsgCorsError ==
    <<"C","O","R","S"," ","e","r","r","o","r",":"," ","B","a","c","k","e",
      "n","d"," ","d","i","d"," ","n","o","t"," ","a","l","l","o","w"," ",
      "t","h","i","s"," ","o","r","i","g","i","n",".">>

\* setupProxy.js:129, template head: 'Server error ('
MsgServerErrorOpen ==
    <<"S","e","r","v","e","r"," ","e","r","r","o","r"," ","(">>

\* setupProxy.js:129, template tail: ')'
MsgServerErrorClose ==
    <<")">>

\* setupProxy.js:134: 'An unexpected error occurred'
MsgUnexpected ==
    <<"A","n"," ","u","n","e","x","p","e","c","t","e","d"," ","e","r","r",
      "o","r"," ","o","c","c","u","r","r","e","d">>

\* setupProxy.js:223: 'Failed to start timetable generation'
MsgFailedToStart ==
    <<"F","a","i","l","e","d"," ","t","o"," ","s","t","a","r","t"," ","t",
      "i","m","e","t","a","b","l","e"," ","g","e","n","e","r","a","t","i",
      "o","n">>

\* setupProxy.js:232: 'Unknown error'
MsgUnknownError ==
    <<"U","n","k","n","o","w","n"," ","e","r","r","o","r">>

\* setupProxy.js:233: 'Timetable generation failed: '
PrefixGeneration ==
    <<"T","i","m","e","t","a","b","l","e"," ","g","e","n","e","r","a","t",
      "i","o","n"," ","f","a","i","l","e","d",":"," ">>

\* setupProxy.js:308: 'Generation failed'
MsgGenerationFailed ==
    <<"G","e","n","e","r","a","t","i","o","n"," ","f","a","i","l","e","d">>

\* setupProxy.js:314: 'Generation timeout - please try again'
MsgTimeout ==
    <<"G","e","n","e","r","a","t","i","o","n"," ","t","i","m","e","o","u",
      "t"," ","-"," ","p","l","e","a","s","e"," ","t","r","y"," ","a","g",
      "a","i","n">>

\* setupProxy.js:322: 'CORS policy is blocking requests to the backend. Please check the server configuration.'
MsgCorsPolicy ==
    <<"C","O","R","S"," ","p","o","l","i","c","y"," ","i","s"," ","b","l",
      "o","c","k","i","n","g"," ","r","e","q","u","e","s","t","s"," ","t",
      "o"," ","t","h","e"," ","b","a","c","k","e","n","d","."," ","P","l",
      "e","a","s","e"," ","c","h","e","c","k"," ","t","h","e"," ","s","e",
      "r","v","e","r"," ","c","o","n","f","i","g","u","r","a","t","i","o",
      "n",".">>

\* setupProxy.js:152: 'cors'
SubCors ==
    <<"c","o","r","s">>

\* setupProxy.js:152: 'backend'
SubBackend ==
    <<"b","a","c","k","e","n","d">>

\* setupProxy.js:152: 'network'
SubNetwork ==
    <<"n","e","t","w","o","r","k">>

\* setupProxy.js:321: 'CORS'
SubCORS ==
    <<"C","O","R","S">>

\* setupProxy.js:116: 'Network Error'
SubNetworkError ==
    <<"N","e","t","w","o","r","k"," ","E","r","r","o","r">>

\* axios message of a refused connection: 'Network Error'
SampleNetworkError ==
    <<"N","e","t","w","o","r","k"," ","E","r","r","o","r">>

\* axios message of a request timeout (timeout: 300000, setupProxy.js:70): 'timeout of 300000ms exceeded'
SampleTimeout ==
    <<"t","i","m","e","o","u","t"," ","o","f"," ","3","0","0","0","0","0",
      "m","s"," ","e","x","c","e","e","d","e","d">>

\* a server-supplied error text without connectivity words: 'Invalid file'
SampleInvalidFile ==
    <<"I","n","v","a","l","i","d"," ","f","i","l","e">>

\* a server-supplied error text that contains 'backend': 'Backend busy'
SampleBackendBusy ==
    <<"B","a","c","k","e","n","d"," ","b","u","s","y">>

\* a server-supplied job error text: 'Solver crashed'
SampleSolverCrashed ==
    <<"S","o","l","v","e","r"," ","c","r","a","s","h","e","d">>

\* a server-supplied error text with a lower-case cors: 'cors preflight rejected'
SampleCorsPreflight ==
    <<"c","o","r","s"," ","p","r","e","f","l","i","g","h","t"," ","r","e",
      "j","e","c","t","e","d">>

\* ------------------------------------------------------------------------
\* Transport: the response interceptor's failure classification

\* an axios failure as the interceptor sees it: error.request, error.response,
\* error.code, error.message, response.status, response.data.message,
\* response.data.error (absent texts are the empty string)
AxiosError(req, resp, code, message, status, dataMessage, dataError) ==
    [request |-> req, response |-> resp, code |-> code, message |-> message,
     status |-> status, dataMessage |-> dataMessage, dataError |-> dataError]

ErrRefused ==
    AxiosError(TRUE, FALSE, "ERR_NETWORK", SampleNetworkError, 0, <<>>, <<>>)

ErrOpaque ==
    AxiosError(TRUE, TRUE, "ERR_BAD_RESPONSE", <<>>, 0, <<>>, <<>>)

ErrHttp500 ==
    AxiosError(TRUE, TRUE, "ERR_BAD_RESPONSE", <<>>, 500, <<>>, <<>>)

ErrHttp400 ==
    AxiosError(TRUE, TRUE, "ERR_BAD_REQUEST", <<>>, 400, <<>>, SampleInvalidFile)

ErrHttp503 ==
    AxiosError(TRUE, TRUE, "ERR_BAD_RESPONSE", <<>>, 503, SampleBackendBusy, <<>>)

ErrHttp403 ==
    AxiosError(TRUE, TRUE, "ERR_BAD_REQUEST", <<>>, 403, <<>>,
               SampleCorsPreflight)

ErrTimeout ==
    AxiosError(TRUE, FALSE, "ECONNABORTED", SampleTimeout, 0, <<>>, <<>>)

ErrSetup ==
    AxiosError(FALSE, FALSE, "", <<>>, 0, <<>>, <<>>)

\* the failures a request can end with
AxiosErrors ==
    {ErrRefused, ErrOpaque, ErrHttp500, ErrHttp400, ErrHttp403, ErrHttp503,
     ErrTimeout, ErrSetup}

\* variant: data.error read before data.message
ResponseInterceptorErrorFirst(e) ==
    IF e.request /\ ~e.response
       /\ (e.code = "ERR_NETWORK" \/ Includes(e.message, SubNetworkError))
    THEN MsgCannotReach
    ELSE IF e.response
         THEN IF e.status = 0
              THEN MsgCorsError
              ELSE OrElse(e.dataError,
                     OrElse(e.dataMessage,
                       MsgServerErrorOpen \o NumToString(e.status)
                         \o MsgServerErrorClose))
         ELSE OrElse(e.message, MsgUnexpected)

\* apiClient.interceptors.response, rejection handler: the message of the
\* Error it throws
ResponseInterceptor(e) ==
    IF e.request /\ ~e.response
       /\ (e.code = "ERR_NETWORK" \/ Includes(e.message, SubNetworkError))
    THEN MsgCannotReach
    ELSE IF e.response
         THEN IF e.status = 0
              THEN MsgCorsError
              ELSE OrElse(e.dataMessage,
                     OrElse(e.dataError,
                       MsgServerErrorOpen \o NumToString(e.status)
                         \o MsgServerErrorClose))
         ELSE OrElse(e.message, MsgUnexpected)

\* ------------------------------------------------------------------------
\* makeRequestWithRetry

\* default of the retries parameter
DefaultRetries == 3

\* variant: every failure is taken for a connectivity failure
IsTransientAll(msg) ==
    TRUE

\* the catch block's transient-connectivity test on error.message
IsTransient(msg) ==
    \/ Includes(ToLowerCase(msg), SubCors)
    \/ Includes(ToLowerCase(msg), SubBackend)
    \/ Includes(ToLowerCase(msg), SubNetwork)

\* variant: a constant backoff
BackoffDelayFlat(idx) ==
    1000

\* the wait before the next attempt, in ms, after the failure at index idx
BackoffDelay(idx) ==
    1000 * (idx + 1)

\* variant: the first error caught is the one thrown
ThrownErrorFirst(errors) ==
    errors[1]

\* throw error: the error caught in this iteration, as it is (errors are the
\* errors caught so far, this one last)
ThrownError(errors) ==
    errors[Len(errors)]

\* variant: the budget is not looked at
RetryCatchNoBudget(idx, budget, msg) ==
    IF IsTransient(msg) THEN "wait"
    ELSE "throw"

\* the catch block: "throw" the error to the caller or "wait" and loop
RetryCatch(idx, budget, msg) ==
    IF idx = budget - 1 THEN "throw"
    ELSE IF IsTransient(msg) THEN "wait"
    ELSE "throw"

\* ------------------------------------------------------------------------
\* JavaScript values of a status response

\* a property that is not there, a null, and their truthiness for strings
Undefined == "<undefined>"

Null == "<null>"

Truthy(s) ==
    s \notin {Undefined, Null, ""}

\* a || b on strings compared only by equality
Or(a, b) ==
    IF Truthy(a) THEN a ELSE b

\* a value with its typeof tag: the progress field
JSVal(type, value) ==
    [type |-> type, value |-> value]

NoProgress ==
    JSVal("undefined", 0)

\* an optional collection: undefined, or an array (an empty array is truthy)
None ==
    [def |-> FALSE, v |-> <<>>]

Some(arr) ==
    [def |-> TRUE, v |-> arr]

\* a timetable entry and an entry of parsed_timetables
Entry(title, rows) ==
    [title |-> title, rows |-> rows]

Parsed(rows) ==
    [rows |-> rows]

\* the result field: undefined, null, or an object with the three collections
ResultObject(timetables, timetables_raw, parsed_timetables) ==
    [type |-> "object", timetables |-> timetables,
     timetables_raw |-> timetables_raw,
     parsed_timetables |-> parsed_timetables]

NoResult ==
    [type |-> "undefined", timetables |-> None, timetables_raw |-> None,
     parsed_timetables |-> None]

NullResult ==
    [type |-> "null", timetables |-> None, timetables_raw |-> None,
     parsed_timetables |-> None]

\* statusResponse.data; error and Error are texts, <<>> when absent or falsy
StatusData(status, State, state, pct, message, result, err, Error) ==
    [status |-> status, State |-> State, state |-> state,
     progress |-> pct, message |-> message, result |-> result,
     error |-> err, Error |-> Error]

\* statusResponse.data missing: the {} of the conditional
EmptyData ==
    StatusData(Undefined, Undefined, Undefined, NoProgress, Undefined,
               NoResult, <<>>, <<>>)

\* ------------------------------------------------------------------------
\* pollForCompletion.checkStatus: normalization

maxAttempts == 120

\* the object literal assigned to normalized
NormalizedLiteral(statusData) ==
    [status |-> Or(statusData.status, Or(statusData.State, statusData.state)),
     progress |-> IF statusData.progress.type = "number"
                  THEN statusData.progress.value ELSE 0,
     message |-> Or(statusData.message, ""),
     result |-> statusData.result,
     error |-> OrElse(statusData.error, statusData.Error)]

\* variant: the error test before the result test
InferStatusErrorFirst(n) ==
    IF Truthy(n.status) THEN n.status
    ELSE IF n.error # <<>> THEN "error"
    ELSE IF n.result.type = "object" THEN "completed"
    ELSE "processing"

\* the three defaulting ifs that follow the literal
InferStatus(n) ==
    IF Truthy(n.status) THEN n.status
    ELSE IF n.result.type = "object" THEN "completed"
    ELSE IF n.error # <<>> THEN "error"
    ELSE "processing"

\* variant: without a status, an error is looked for before a result
NormalizeErrorWins(statusData) ==
    [NormalizedLiteral(statusData) EXCEPT
       !.status = InferStatusErrorFirst(NormalizedLiteral(statusData))]

Normalize(statusData) ==
    [NormalizedLiteral(statusData) EXCEPT
       !.status = InferStatus(NormalizedLiteral(statusData))]

\* variant: the message is passed without its default
ProgressUpdateNoDefault(n) ==
    [percentage |-> n.progress, message |-> n.message]

\* the argument of the first progressCallback call of a poll
ProgressUpdate(n) ==
    [percentage |-> n.progress, message |-> Or(n.message, "Processing...")]

\* the argument of the progressCallback call on completion
CompletedUpdate ==
    [percentage |-> 100, message |-> "Completed"]

\* variant: the promise resolves before the completion update is delivered
CompletedEffectsResolveFirst ==
    <<"progressCallback", "resolve", "progressCallback">>

\* the effects of the completed branch, in program order
CompletedEffects ==
    <<"progressCallback", "progressCallback", "resolve">>

\* variant: the word 'done' completes as well
IsCompletedOrDone(status) ==
    status \in {"completed", "done"}

\* the terminal tests on normalized.status
IsCompleted(status) ==
    status = "completed"

\* variant: the error test on another word
IsErrorFailedWord(status) ==
    status = "failed"

IsError(status) ==
    status = "error"

\* variant: the ceiling test off by one
CeilingReachedLate(n) ==
    n > maxAttempts

\* the ceiling test after a non-terminal poll
CeilingReached(n) ==
    n >= maxAttempts

\* variant: timetables_raw is taken whenever it is there
AliasRawAlways(result) ==
    IF result.timetables_raw.def
    THEN [result EXCEPT !.timetables = result.timetables_raw]
    ELSE result

\* the result merge: alias timetables_raw, then attach the parsed rows
AliasRaw(result) ==
    IF ~result.timetables.def /\ result.timetables_raw.def
    THEN [result EXCEPT !.timetables = result.timetables_raw]
    ELSE result

\* variant: a timetable without a parsed entry keeps its own rows
AttachRowsKeep(result) ==
    IF result.parsed_timetables.def /\ result.timetables.def
    THEN [result EXCEPT !.timetables =
            Some([k \in 1..Len(result.timetables.v) |->
                    [result.timetables.v[k] EXCEPT !.rows =
                       IF k <= Len(result.parsed_timetables.v)
                       THEN result.parsed_timetables.v[k].rows
                       ELSE @]])]
    ELSE result

AttachRows(result) ==
    IF result.parsed_timetables.def /\ result.timetables.def
    THEN [result EXCEPT !.timetables =
            Some([k \in 1..Len(result.timetables.v) |->
                    [result.timetables.v[k] EXCEPT !.rows =
                       IF k <= Len(result.parsed_timetables.v)
                       THEN result.parsed_timetables.v[k].rows
                       ELSE Some(<<>>)]])]
    ELSE result

MergeResult(result) ==
    IF result.type = "object" THEN AttachRows(AliasRaw(result)) ELSE result

\* variant: the CORS test in any letter case
PollCatchAnyCase(msg) ==
    IF Includes(ToLowerCase(msg), SubCors) THEN MsgCorsPolicy ELSE msg

\* the catch block of checkStatus: the message of the rejection
PollCatch(msg) ==
    IF Includes(msg, SubCORS) THEN MsgCorsPolicy ELSE msg

\* variant: 200 accepted as well
StartAcceptedAny2xx(status) ==
    status \in {200, 202}

\* generateTimetable: the accepted-for-processing test and the catch block
StartAccepted(status) ==
    status = 202

GenerationCatch(msg) ==
    PrefixGeneration \o OrElse(msg, MsgUnknownError)

\* ------------------------------------------------------------------------
\* the observer the UI passes: startGeneration.progressCallback

\* variant: no clamping
ClampProgressNone(pct) ==
    pct

\* Math.min(Math.max(pct, 30), 100)
ClampProgress(pct) ==
    IF (IF pct > 30 THEN pct ELSE 30) < 100
    THEN (IF pct > 30 THEN pct ELSE 30) ELSE 100

\* ------------------------------------------------------------------------
\* The status responses the server is taken to send

RowsA ==
    <<Entry("A", None)>>

ResTimetables ==
    ResultObject(Some(RowsA), None, None)

ResRaw ==
    ResultObject(None, Some(RowsA), None)

ResParsed ==
    ResultObject(Some(<<Entry("A", None), Entry("B", Some(<<"old">>))>>),
                 None, Some(<<Parsed(Some(<<"r1">>))>>))

PollResponses ==
    {StatusData("processing", Undefined, Undefined, JSVal("number", 40),
                "Halfway", NoResult, <<>>, <<>>),
     StatusData("processing", Undefined, Undefined, JSVal("number", 20),
                Undefined, NoResult, <<>>, <<>>),
     StatusData("processing", Undefined, Undefined, JSVal("number", 150),
                Undefined, NoResult, <<>>, <<>>),
     EmptyData,
     StatusData(Undefined, Undefined, "processing", JSVal("string", 50),
                Undefined, NoResult, <<>>, <<>>),
     StatusData("failed", Undefined, Undefined, JSVal("number", 10),
                Undefined, NoResult, <<>>, <<>>),
     StatusData("completed", Undefined, Undefined, JSVal("number", 100),
                Undefined, ResTimetables, <<>>, <<>>),
     StatusData(Undefined, "Completed", Undefined, NoProgress,
                Undefined, ResRaw, <<>>, <<>>),
     StatusData(Undefined, "completed", Undefined, NoProgress,
                Undefined, ResRaw, <<>>, <<>>),
     StatusData(Undefined, Undefined, Undefined, NoProgress,
                Undefined, ResParsed, <<>>, <<>>),
     StatusData("completed", Undefined, Undefined, NoProgress,
                Undefined, NoResult, <<>>, <<>>),
     StatusData("error", Undefined, Undefined, JSVal("number", 40),
                Undefined, NoResult, SampleSolverCrashed, <<>>),
     StatusData("error", Undefined, Undefined, NoProgress,
                Undefined, NoResult, <<>>, <<>>),
     StatusData(Undefined, Undefined, Undefined, NoProgress,
                Undefined, NoResult, SampleInvalidFile, <<>>),
     StatusData(Undefined, Undefined, Undefined, NoProgress,
                Undefined, NoResult, <<>>, SampleInvalidFile),
     StatusData(Undefined, Undefined, Undefined, NoProgress,
                Undefined, ResTimetables, SampleSolverCrashed, <<>>)}

\* the status codes a resolved start request can carry (axios resolves 2xx)
StartStatuses ==
    {200, 201, 202, 204}

\* the messages a request function can throw in RetrySpec: what the
\* interceptor produces, a raw axios message, and an error without message
RequestErrors ==
    {ResponseInterceptor(e) : e \in AxiosErrors}
      \cup {SampleNetworkError, SubCORS, <<>>}

\* ------------------------------------------------------------------------
\* uploadFile and downloadTimetable: texts, values and pure steps

\* setupProxy.js:181: 'upload_id not returned by server'
MsgUploadIdNotReturned ==
    <<"u","p","l","o","a","d","_","i","d"," ","n","o","t"," ","r","e","t",
      "u","r","n","e","d"," ","b","y"," ","s","e","r","v","e","r">>

\* setupProxy.js:187: 'Upload failed'
MsgUploadFailed ==
    <<"U","p","l","o","a","d"," ","f","a","i","l","e","d">>

\* setupProxy.js:188: 'File upload failed: '
PrefixUpload ==
    <<"F","i","l","e"," ","u","p","l","o","a","d"," ","f","a","i","l","e",
      "d",":"," ">>

\* setupProxy.js:374: 'Download failed: '
PrefixDownload ==
    <<"D","o","w","n","l","o","a","d"," ","f","a","i","l","e","d",":"," ">>

\* setupProxy.js:363, template head: 'timetable_'
FilenameStem ==
    <<"t","i","m","e","t","a","b","l","e","_">>

\* setupProxy.js:363: 'pdf'
ExtPdf ==
    <<"p","d","f">>

\* setupProxy.js:363: 'xlsx'
ExtXlsx ==
    <<"x","l","s","x">>

\* setupProxy.js:363: 'pdf'
FormatPdf ==
    <<"p","d","f">>

\* setupProxy.js:180: 'upload_id'
KeyUploadIdSnake ==
    <<"u","p","l","o","a","d","_","i","d">>

\* setupProxy.js:180: 'uploadId'
KeyUploadIdCamel ==
    <<"u","p","l","o","a","d","I","d">>

\* setupProxy.js:180: 'id'
KeyId ==
    <<"i","d">>

\* TimetableGenerator.js:138: 'meta'
KeyMeta ==
    <<"m","e","t","a">>

\* a value of new Date().toISOString().slice(0, 10): '2026-11-05'
SampleToday ==
    <<"2","0","2","6","-","1","1","-","0","5">>

\* a job identifier: 'abc'
SampleIdAbc ==
    <<"a","b","c">>

\* another job identifier: 'xyz'
SampleIdXyz ==
    <<"x","y","z">>

\* a job identifier carried under meta: 'm7'
SampleIdMeta ==
    <<"m","7">>

\* bounds of the model (not program constants): the longest timetables and
\* parsed_timetables arrays of MergeSpec, the exports of FileSpec
MaxLen == 2

MaxDownloads == 2

\* an optional text is truthy when it is there and not the empty string
Present(opt) ==
    opt.def /\ opt.v # <<>>

\* a || b on optional texts
OrOpt(a, b) ==
    IF Present(a) THEN a ELSE b

\* the nested meta object of an upload response, absent or with the id keys
NoMeta ==
    [def |-> FALSE, upload_id |-> None, uploadId |-> None, id |-> None]

Meta(upload_id, uploadId, id) ==
    [def |-> TRUE, upload_id |-> upload_id, uploadId |-> uploadId, id |-> id]

\* response.data of the upload request
UploadData(upload_id, uploadId, id, meta) ==
    [upload_id |-> upload_id, uploadId |-> uploadId, id |-> id, meta |-> meta]

\* no response yet
NoUploadData ==
    UploadData(None, None, None, NoMeta)

\* uploadFile: data.upload_id || data.uploadId || data.id
UploadIdOf(data) ==
    OrOpt(data.upload_id, OrOpt(data.uploadId, data.id))

\* uploadFile: the object it returns, { uploadId, meta: data }; the other keys
\* handleGenerate reads are not there
UploadResult(handle, data) ==
    [uploadId |-> handle, upload_id |-> None, fileId |-> None, id |-> None,
     meta |-> data]

\* handleGenerate: the chain that reads currentUploadId from what uploadFile
\* resolved with; uploadResponse.meta is the response body itself
ExtractUploadId(uploadResponse) ==
    OrOpt(uploadResponse.uploadId, OrOpt(uploadResponse.upload_id,
      OrOpt(uploadResponse.fileId, OrOpt(uploadResponse.id,
        OrOpt(uploadResponse.meta.upload_id,
          OrOpt(uploadResponse.meta.uploadId, uploadResponse.meta.id))))))

\* variant: the catch block rethrows the error as it is
UploadCatchBare(msg) ==
    OrElse(msg, MsgUploadFailed)

\* uploadFile: the catch block (the errors it catches have no response field)
UploadCatch(msg) ==
    PrefixUpload \o OrElse(msg, MsgUploadFailed)

\* downloadTimetable: the catch block
DownloadCatch(msg) ==
    PrefixDownload \o msg

\* JSON.stringify on a text, on the id keys of an object, on an upload
\* response body (absent keys are left out)
JsonString(s) ==
    <<"\"">> \o s \o <<"\"">>

JsonMember(key, opt) ==
    IF opt.def THEN <<JsonString(key) \o <<":">> \o JsonString(opt.v)>>
    ELSE <<>>

RECURSIVE JoinComma(_)
JoinComma(members) ==
    IF members = <<>> THEN <<>>
    ELSE IF Len(members) = 1 THEN members[1]
    ELSE members[1] \o <<",">> \o JoinComma(Tail(members))

JsonObject(members) ==
    <<"{">> \o JoinComma(members) \o <<"}">>

JsonIds(o) ==
    JsonMember(KeyUploadIdSnake, o.upload_id)
      \o JsonMember(KeyUploadIdCamel, o.uploadId)
      \o JsonMember(KeyId, o.id)

Stringify(data) ==
    JsonObject(JsonIds(data) \o
      (IF data.meta.def
       THEN <<JsonString(KeyMeta) \o <<":">> \o JsonObject(JsonIds(data.meta))>>
       ELSE <<>>))

\* downloadTimetable: the extension test on the format argument
FileExt(fmt) ==
    IF fmt = FormatPdf THEN ExtPdf ELSE ExtXlsx

\* downloadTimetable: the filename template
Filename(timestamp, fmt) ==
    FilenameStem \o timestamp \o <<".">> \o FileExt(fmt)

\* window.URL.createObjectURL and revokeObjectURL on the tab's live URLs
CreateObjectURL(live, url) ==
    live \cup {url}

\* variant: the URL is never released
RevokeObjectURLNoop(live, url) ==
    live

RevokeObjectURL(live, url) ==
    live \ {url}

\* the effects of a download whose request succeeded, in program order
DownloadEffects ==
    <<"createObjectURL", "click", "revokeObjectURL", "resolve">>

\* a time slot and the list getTimeSlots falls back to
Slot(start, end, label) ==
    [start |-> start, end |-> end, label |-> label]

DefaultTimeSlots ==
    <<Slot("09:00", "10:00", "9:00 AM"),
      Slot("10:00", "11:00", "10:00 AM"),
      Slot("11:00", "12:00", "11:00 AM"),
      Slot("12:00", "13:00", "12:00 PM"),
      Slot("14:00", "15:00", "2:00 PM"),
      Slot("15:00", "16:00", "3:00 PM"),
      Slot("16:00", "17:00", "4:00 PM")>>

\* variant: the failure is passed on to the caller
TimeSlotsCatchRethrow(msg) ==
    [state |-> "rejected", value |-> NoResult, error |-> msg]

\* getTimeSlots: the catch block, return of the default list
TimeSlotsCatch(msg) ==
    [state |-> "resolved", value |-> DefaultTimeSlots, error |-> <<>>]

\* the bodies the server is taken to answer GET /timetable/timeslots with
TimeSlotResponses ==
    {<<>>,
     <<Slot("08:00", "09:00", "8:00 AM")>>,
     <<Slot("09:00", "10:00", "9:00 AM"), Slot("10:00", "11:00", "10:00 AM")>>}

\* the upload responses the server is taken to send
UploadResponses ==
    {UploadData(a, b, c, m) :
       a \in {None, Some(SampleIdAbc)},
       b \in {None, Some(<<>>), Some(SampleIdXyz)},
       c \in {None, Some(SampleIdXyz)},
       m \in {NoMeta, Meta(None, None, None),
              Meta(Some(SampleIdMeta), None, None),
              Meta(None, None, Some(SampleIdMeta))}}

\* the format arguments downloadTimetable is called with
Formats ==
    {<<"p","d","f">>, <<"P","D","F">>, <<"P","d","f">>,
     <<"e","x","c","e","l">>, <<"E","x","c","e","l">>}

\* the results a completed poll can carry in MergeSpec
SeqsUpTo(S, n) ==
    UNION {[1..k -> S] : k \in 0..n}

MergeEntries ==
    {Entry("A", None), Entry("B", Some(<<"old">>))}

MergeParsed ==
    {Parsed(Some(<<"r1">>)), Parsed(Some(<<>>)), Parsed(None)}

MergeResults ==
    {ResultObject(t, raw, p) :
       t \in {None} \cup {Some(s) : s \in SeqsUpTo(MergeEntries, MaxLen)},
       raw \in {None, Some(RowsA)},
       p \in {None} \cup {Some(s) : s \in SeqsUpTo(MergeParsed, MaxLen)}}

MergeResponses ==
    {StatusData("completed", Undefined, Undefined, JSVal("number", 100),
                Undefined, r, <<>>, <<>>) : r \in MergeResults}

\* ------------------------------------------------------------------------
\* State

VARIABLES
    pc,           \* "idle", "request", "backoff", "sleep", "done"
    caller,       \* who is inside makeRequestWithRetry: "start", "poll", "bare"
    retries,      \* makeRequestWithRetry: the retries parameter
    i,            \* makeRequestWithRetry: the loop index
    calls,        \* invocations of requestFn by the current wrapper call
    delays,       \* the waits of the current wrapper call, in ms
    fails,        \* RetrySpec: the messages requestFn has thrown
    attempts,     \* pollForCompletion: attempts
    startStatus,  \* generateTimetable: startResponse.status, 0 before
    statusData,   \* checkStatus: statusData of the current poll
    normalized,   \* checkStatus: normalized of the current poll
    obsCount,     \* progressCallback calls made by the current loop
    obsLast,      \* the argument of the last progressCallback call
    progress,     \* the observer's useState: progress
    progressText, \* the observer's useState: progressText
    pollOutcome,  \* the promise of pollForCompletion
    outcome,      \* the promise of the operation called (RetrySpec: of the wrapper)
    op,           \* the exported operation that was called last
    trace,        \* the effects of the last handler run, in program order
    caught,       \* the message of the error the operation's catch block caught
    uploadData,   \* uploadFile: response.data
    currentUploadId, \* handleGenerate: currentUploadId
    format,       \* downloadTimetable: the format argument
    exportFormat, \* downloadTimetable: format in the request body
    filename,     \* downloadTimetable: the download attribute of the link
    liveUrls,     \* object URLs created and not revoked
    urlCount,     \* object URLs created so far
    clicks,       \* link.click() calls so far
    selectedFile, \* TimetableGenerator useState: selectedFile
    uploadId,     \* TimetableGenerator useState: uploadId
    isProcessing, \* TimetableGenerator useState: isProcessing
    generations,  \* TimetableGenerator useState: generations
    awaitingGenerations, \* TimetableGenerator useState: awaitingGenerations
    generatedData, \* TimetableGenerator useState: generatedData
    error,        \* TimetableGenerator useState: error
    flows,        \* UISpec: the api calls of the component that are in flight
    timers,       \* UISpec: pending 1500 ms timers of startGeneration
    loops,        \* PairSpec: the two concurrent generateTimetable calls
    counters,     \* PairSpec: the attempts variables, one per scope
    axiosError,   \* InterceptSpec: the failure the interceptor is given
    thrown,       \* InterceptSpec: the message of the Error it rejects with
    uploadIdArg,  \* BodySpec: generateTimetable's uploadId argument
    options,      \* BodySpec: generateTimetable's options argument
    body,         \* BodySpec: the body of the start request
    statusRequests \* LoopSpec: the status requests one loop has sent

wrapperVars ==
    <<pc, caller, retries, i, calls, delays, fails>>

observerVars ==
    <<obsCount, obsLast, progress, progressText>>

pollVars ==
    <<attempts, startStatus, statusData, normalized, pollOutcome, outcome>>

logVars ==
    <<op, trace, caught>>

fileVars ==
    <<uploadData, currentUploadId, format, exportFormat, filename, liveUrls,
      urlCount, clicks>>

uiVars ==
    <<selectedFile, uploadId, isProcessing, generations, awaitingGenerations,
      generatedData, error, flows, timers>>

pairVars ==
    <<loops, counters>>

interceptVars ==
    <<axiosError, thrown>>

bodyVars ==
    <<uploadIdArg, options, body>>

\* what one call of the api module, made on its own, does not touch
extVars ==
    <<uiVars, pairVars, interceptVars, bodyVars, statusRequests>>

vars ==
    <<pc, caller, retries, i, calls, delays, fails, attempts, startStatus,
      statusData, normalized, obsCount, obsLast, progress, progressText,
      pollOutcome, outcome, op, trace, caught, uploadData, currentUploadId,
      format, exportFormat, filename, liveUrls, urlCount, clicks,
      selectedFile, uploadId, isProcessing, generations, awaitingGenerations,
      generatedData, error, flows, timers, loops, counters, axiosError,
      thrown, uploadIdArg, options, body, statusRequests>>

\* promise states; NoCall: the operation has not been called
NoCall ==
    [state |-> "none", value |-> NoResult, error |-> <<>>]

Pending ==
    [state |-> "pending", value |-> NoResult, error |-> <<>>]

Resolved(value) ==
    [state |-> "resolved", value |-> value, error |-> <<>>]

\* variant: the error is logged and the promise is left pending
RejectedSwallowed(msg) ==
    [state |-> "pending", value |-> NoResult, error |-> <<>>]

Rejected(msg) ==
    [state |-> "rejected", value |-> NoResult, error |-> msg]

NoUpdate ==
    [percentage |-> 0, message |-> ""]

\* the component as constructed: the useState defaults, nothing in flight
UIInit ==
    /\ selectedFile = Null
    /\ uploadId = None
    /\ isProcessing = FALSE
    /\ generations = ""
    /\ awaitingGenerations = FALSE
    /\ generatedData = <<>>
    /\ error = <<>>
    /\ flows = <<>>
    /\ timers = 0

\* the two calls of PairSpec: neither has been made
LoopIds ==
    {1, 2}

NoLoop ==
    [pc |-> "none", obsCount |-> 0, outcome |-> NoCall]

PairInit ==
    /\ loops = [l \in LoopIds |-> NoLoop]
    /\ counters = [l \in LoopIds |-> 0]

\* no failure has been given to the interceptor
InterceptIdle ==
    /\ axiosError = ErrSetup
    /\ thrown = None

\* an argument that was not passed
NoOptions ==
    [type |-> "undefined", value |-> <<>>]

\* no start request has been built
BodyIdle ==
    /\ uploadIdArg = <<>>
    /\ options = NoOptions
    /\ body = None

ExtInit ==
    /\ UIInit
    /\ PairInit
    /\ InterceptIdle
    /\ BodyIdle
    /\ statusRequests = 0

\* the api module as loaded, nothing has been called; useState(0) and
\* useState('') of the progress display
ApiInit ==
    /\ pc = "idle"
    /\ caller = "none"
    /\ retries = DefaultRetries
    /\ i = 0
    /\ calls = 0
    /\ delays = <<>>
    /\ fails = <<>>
    /\ attempts = 0
    /\ startStatus = 0
    /\ statusData = EmptyData
    /\ normalized = Normalize(EmptyData)
    /\ obsCount = 0
    /\ obsLast = NoUpdate
    /\ progress = 0
    /\ progressText = ""
    /\ pollOutcome = NoCall
    /\ outcome = NoCall
    /\ op = "none"
    /\ trace = <<>>
    /\ caught = <<>>
    /\ uploadData = NoUploadData
    /\ currentUploadId = None
    /\ format = <<>>
    /\ exportFormat = <<>>
    /\ filename = <<>>
    /\ liveUrls = {}
    /\ urlCount = 0
    /\ clicks = 0

\* the state after the component is constructed and the module is loaded
Init ==
    /\ ApiInit
    /\ ExtInit

\* ------------------------------------------------------------------------
\* makeRequestWithRetry as its callers run it

\* the call: the loop starts and requestFn is invoked
CallWrapper(who) ==
    /\ pc' = "request"
    /\ caller' = who
    /\ retries' = DefaultRetries
    /\ i' = 0
    /\ calls' = 1
    /\ delays' = <<>>
    /\ UNCHANGED fails

\* the catch block chose to wait: setTimeout(resolve, 1000 * (i + 1))
WrapperWait ==
    /\ pc' = "backoff"
    /\ delays' = Append(delays, BackoffDelay(i))
    /\ UNCHANGED <<caller, retries, i, calls>>

\* variant: no return after the promise settles, the next poll is scheduled
WrapperKeepsPolling ==
    /\ pc' = "sleep"
    /\ caller' = "poll"
    /\ i' = 0
    /\ calls' = 0
    /\ delays' = <<>>
    /\ UNCHANGED <<retries, fails>>

\* the wrapper has returned or thrown and its caller starts no request
WrapperIdle ==
    /\ pc' = "idle"
    /\ caller' = "none"
    /\ i' = 0
    /\ calls' = 0
    /\ delays' = <<>>
    /\ UNCHANGED <<retries, fails>>

\* the backoff timer fires: i++, the loop test, requestFn again
BackoffElapsed ==
    /\ pc = "backoff"
    /\ pc' = "request"
    /\ i' = i + 1
    /\ calls' = calls + 1
    /\ UNCHANGED <<caller, retries, delays, fails>>
    /\ UNCHANGED observerVars
    /\ UNCHANGED pollVars
    /\ UNCHANGED logVars
    /\ UNCHANGED fileVars
    /\ UNCHANGED extVars

\* ------------------------------------------------------------------------
\* the observer: startGeneration.progressCallback, called with progressData

\* variant: the percentage is displayed as it comes
ProgressCallbackUnclamped(progressData) ==
    /\ progress' = progressData.percentage
    /\ progressText' = Or(progressData.message, progressText)

ProgressCallback(progressData) ==
    /\ progress' = ClampProgress(progressData.percentage)
    /\ progressText' = Or(progressData.message, progressText)

\* ------------------------------------------------------------------------
\* generateTimetable and pollForCompletion

\* a caller that has no call in flight calls
\* generateTimetable(uploadId, progressCallback, options): the function runs
\* up to its await, the start request goes out through the wrapper
GenerateTimetable ==
    /\ pc = "idle"
    /\ caller = "none"
    /\ outcome' = Pending
    /\ pollOutcome' = NoCall
    /\ attempts' = 0
    /\ startStatus' = 0
    /\ statusData' = EmptyData
    /\ normalized' = Normalize(EmptyData)
    /\ obsCount' = 0
    /\ obsLast' = NoUpdate
    /\ CallWrapper("start")
    /\ op' = "generateTimetable"
    /\ trace' = <<>>
    /\ caught' = <<>>
    /\ uploadData' = NoUploadData
    /\ currentUploadId' = None
    /\ format' = <<>>
    /\ exportFormat' = <<>>
    /\ filename' = <<>>
    /\ UNCHANGED <<progress, progressText, liveUrls, urlCount, clicks>>
    /\ UNCHANGED extVars

\* generateTimetable rejects: its catch block
GenerationFails(msg) ==
    /\ caught' = msg
    /\ outcome' = Rejected(GenerationCatch(msg))
    /\ WrapperIdle

\* the start request resolves with a status code
StartResponse(status) ==
    /\ pc = "request"
    /\ caller = "start"
    /\ startStatus' = status
    /\ IF StartAccepted(status)
       THEN \* pollForCompletion: attempts = 0, checkStatus up to its await
            /\ attempts' = 1
            /\ pollOutcome' = Pending
            /\ CallWrapper("poll")
            /\ UNCHANGED <<outcome, caught>>
       ELSE /\ GenerationFails(MsgFailedToStart)
            /\ UNCHANGED <<attempts, pollOutcome>>
    /\ UNCHANGED <<statusData, normalized, op, trace>>
    /\ UNCHANGED observerVars
    /\ UNCHANGED fileVars
    /\ UNCHANGED extVars

\* the start request fails
StartFailure(e) ==
    /\ pc = "request"
    /\ caller = "start"
    /\ IF RetryCatch(i, retries, ResponseInterceptor(e)) = "wait"
       THEN /\ WrapperWait
            /\ UNCHANGED <<fails, outcome, caught>>
       ELSE GenerationFails(ResponseInterceptor(e))
    /\ UNCHANGED <<attempts, startStatus, statusData, normalized, pollOutcome>>
    /\ UNCHANGED <<op, trace>>
    /\ UNCHANGED observerVars
    /\ UNCHANGED fileVars
    /\ UNCHANGED extVars

\* checkStatus after its await, for a status request that resolved with data
PollResponse(data) ==
    /\ pc = "request"
    /\ caller = "poll"
    /\ statusData' = data
    /\ normalized' = Normalize(data)
    /\ UNCHANGED <<attempts, startStatus, op>>
    /\ UNCHANGED fileVars
    /\ IF IsCompleted(Normalize(data).status)
       THEN \* both progressCallback calls, then resolve
            /\ trace' = CompletedEffects
            /\ UNCHANGED caught
            /\ obsCount' = obsCount + 2
            /\ obsLast' = CompletedUpdate
            /\ ProgressCallback(CompletedUpdate)
            /\ pollOutcome' = Resolved(MergeResult(Normalize(data).result))
            /\ outcome' = Resolved(MergeResult(Normalize(data).result))
            /\ WrapperIdle
       ELSE /\ obsCount' = obsCount + 1
            /\ obsLast' = ProgressUpdate(Normalize(data))
            /\ ProgressCallback(ProgressUpdate(Normalize(data)))
            /\ IF IsError(Normalize(data).status)
               THEN /\ trace' = <<"progressCallback", "reject">>
                    /\ pollOutcome' =
                         Rejected(OrElse(Normalize(data).error,
                                         MsgGenerationFailed))
                    /\ GenerationFails(OrElse(Normalize(data).error,
                                              MsgGenerationFailed))
               ELSE IF CeilingReached(attempts)
               THEN /\ trace' = <<"progressCallback", "reject">>
                    /\ pollOutcome' = Rejected(MsgTimeout)
                    /\ GenerationFails(MsgTimeout)
               ELSE \* setTimeout(checkStatus, 5000)
                    /\ pc' = "sleep"
                    /\ i' = 0
                    /\ calls' = 0
                    /\ delays' = <<>>
                    /\ trace' = <<"progressCallback", "setTimeout">>
                    /\ UNCHANGED <<caller, retries, fails>>
                    /\ UNCHANGED <<pollOutcome, outcome, caught>>
    /\ UNCHANGED extVars

\* the status request fails: the wrapper's catch block and, when it throws,
\* the catch block of checkStatus
PollFailure(e) ==
    /\ pc = "request"
    /\ caller = "poll"
    /\ IF RetryCatch(i, retries, ResponseInterceptor(e)) = "wait"
       THEN /\ WrapperWait
            /\ UNCHANGED <<fails, pollOutcome, outcome, trace, caught>>
       ELSE /\ trace' = <<"reject">>
            /\ pollOutcome' = Rejected(PollCatch(ResponseInterceptor(e)))
            /\ GenerationFails(PollCatch(ResponseInterceptor(e)))
    /\ UNCHANGED <<attempts, startStatus, statusData, normalized, op>>
    /\ UNCHANGED observerVars
    /\ UNCHANGED fileVars
    /\ UNCHANGED extVars

\* the 5000 ms timer fires: checkStatus runs up to its await
PollTimerFires ==
    /\ pc = "sleep"
    /\ attempts' = attempts + 1
    /\ statusData' = EmptyData
    /\ normalized' = Normalize(EmptyData)
    /\ CallWrapper("poll")
    /\ trace' = <<>>
    /\ UNCHANGED <<startStatus, pollOutcome, outcome, op, caught>>
    /\ UNCHANGED observerVars
    /\ UNCHANGED fileVars
    /\ UNCHANGED extVars

Next ==
    \/ GenerateTimetable
    \/ \E status \in StartStatuses : StartResponse(status)
    \/ \E e \in AxiosErrors : StartFailure(e)
    \/ \E data \in PollResponses : PollResponse(data)
    \/ \E e \in AxiosErrors : PollFailure(e)
    \/ PollTimerFires
    \/ BackoffElapsed

Spec ==
    Init /\ [][Next]_vars

\* every request is answered or fails and every timer fires; nobody is
\* forced to call generateTimetable
FairSpec ==
    /\ Init
    /\ [][Next]_vars
    /\ WF_vars(\E status \in StartStatuses : StartResponse(status))
    /\ WF_vars(\E data \in PollResponses : PollResponse(data))
    /\ WF_vars(PollTimerFires)
    /\ WF_vars(BackoffElapsed)

\* ------------------------------------------------------------------------
\* makeRequestWithRetry on its own: any request function, any budget

RetryInit ==
    /\ pc = "idle"
    /\ caller = "bare"
    /\ retries \in 0..MaxRetries
    /\ i = 0
    /\ calls = 0
    /\ delays = <<>>
    /\ fails = <<>>
    /\ attempts = 0
    /\ startStatus = 0
    /\ statusData = EmptyData
    /\ normalized = Normalize(EmptyData)
    /\ obsCount = 0
    /\ obsLast = NoUpdate
    /\ progress = 0
    /\ progressText = ""
    /\ pollOutcome = NoCall
    /\ outcome = NoCall
    /\ op = "none"
    /\ trace = <<>>
    /\ caught = <<>>
    /\ uploadData = NoUploadData
    /\ currentUploadId = None
    /\ format = <<>>
    /\ exportFormat = <<>>
    /\ filename = <<>>
    /\ liveUrls = {}
    /\ urlCount = 0
    /\ clicks = 0
    /\ ExtInit

\* makeRequestWithRetry(requestFn, retries): the loop test, then requestFn;
\* with no iteration the function returns undefined
RetryCall ==
    /\ pc = "idle"
    /\ caller = "bare"
    /\ i' = 0
    /\ IF 0 < retries
       THEN /\ pc' = "request"
            /\ calls' = 1
            /\ outcome' = Pending
       ELSE /\ pc' = "done"
            /\ calls' = 0
            /\ outcome' = Resolved(NoResult)
    /\ UNCHANGED <<caller, retries, delays, fails>>
    /\ UNCHANGED <<attempts, startStatus, statusData, normalized, pollOutcome>>
    /\ UNCHANGED observerVars
    /\ UNCHANGED logVars
    /\ UNCHANGED fileVars
    /\ UNCHANGED extVars

\* requestFn resolves: return await requestFn()
RetryResponse ==
    /\ pc = "request"
    /\ caller = "bare"
    /\ pc' = "done"
    /\ outcome' = Resolved(NoResult)
    /\ UNCHANGED <<caller, retries, i, calls, delays, fails>>
    /\ UNCHANGED <<attempts, startStatus, statusData, normalized, pollOutcome>>
    /\ UNCHANGED observerVars
    /\ UNCHANGED logVars
    /\ UNCHANGED fileVars
    /\ UNCHANGED extVars

\* requestFn throws an error with message msg: the catch block
RetryFailure(msg) ==
    /\ pc = "request"
    /\ caller = "bare"
    /\ fails' = Append(fails, msg)
    /\ IF RetryCatch(i, retries, msg) = "wait"
       THEN /\ WrapperWait
            /\ UNCHANGED outcome
       ELSE /\ pc' = "done"
            /\ outcome' = Rejected(ThrownError(Append(fails, msg)))
            /\ UNCHANGED <<caller, retries, i, calls, delays>>
    /\ UNCHANGED <<attempts, startStatus, statusData, normalized, pollOutcome>>
    /\ UNCHANGED observerVars
    /\ UNCHANGED logVars
    /\ UNCHANGED fileVars
    /\ UNCHANGED extVars

RetryNext ==
    \/ RetryCall
    \/ RetryResponse
    \/ \E msg \in RequestErrors : RetryFailure(msg)
    \/ BackoffElapsed

RetrySpec ==
    RetryInit /\ [][RetryNext]_vars

\* ------------------------------------------------------------------------
\* The normalization of checkStatus on its own: any status response

ProgressValues ==
    {NoProgress, JSVal("number", 0), JSVal("number", 40),
     JSVal("number", 150), JSVal("string", 50), JSVal("object", 0)}

StatusInputs ==
    {StatusData(s1, s2, s3, p, m, r, e1, e2) :
       s1 \in {Undefined, "", "processing", "completed"},
       s2 \in {Undefined, Null, "Completed", "error"},
       s3 \in {Undefined, "processing", "error"},
       p \in ProgressValues,
       m \in {Undefined, "Halfway"},
       r \in {NoResult, NullResult, ResRaw},
       e1 \in {<<>>, SampleSolverCrashed},
       e2 \in {<<>>, SampleInvalidFile}}

NormInit ==
    /\ pc = "received"
    /\ caller = "poll"
    /\ retries = DefaultRetries
    /\ i = 0
    /\ calls = 1
    /\ delays = <<>>
    /\ fails = <<>>
    /\ attempts = 1
    /\ startStatus = 202
    /\ statusData \in StatusInputs
    /\ normalized = Normalize(EmptyData)
    /\ obsCount = 0
    /\ obsLast = NoUpdate
    /\ progress = 0
    /\ progressText = ""
    /\ pollOutcome = Pending
    /\ outcome = Pending
    /\ op = "generateTimetable"
    /\ trace = <<>>
    /\ caught = <<>>
    /\ uploadData = NoUploadData
    /\ currentUploadId = None
    /\ format = <<>>
    /\ exportFormat = <<>>
    /\ filename = <<>>
    /\ liveUrls = {}
    /\ urlCount = 0
    /\ clicks = 0
    /\ ExtInit

\* the normalization statements of checkStatus, up to the progressCallback call
NormalizeStep ==
    /\ pc = "received"
    /\ pc' = "normalized"
    /\ normalized' = Normalize(statusData)
    /\ UNCHANGED <<caller, retries, i, calls, delays, fails, attempts,
                   startStatus, statusData, pollOutcome, outcome>>
    /\ UNCHANGED observerVars
    /\ UNCHANGED logVars
    /\ UNCHANGED fileVars
    /\ UNCHANGED extVars

NormNext ==
    NormalizeStep

NormSpec ==
    NormInit /\ [][NormNext]_vars

\* ------------------------------------------------------------------------
\* uploadFile and downloadTimetable as a caller runs them, one call at a time

FileInit ==
    Init

\* a call of uploadFile or downloadTimetable: the locals of the call before
\* it are gone, the tab's object URLs and the displayed progress stay
NewCall(name) ==
    /\ op' = name
    /\ outcome' = Pending
    /\ trace' = <<>>
    /\ caught' = <<>>
    /\ uploadData' = NoUploadData
    /\ currentUploadId' = None
    /\ filename' = <<>>
    /\ pollOutcome' = NoCall
    /\ attempts' = 0
    /\ startStatus' = 0
    /\ statusData' = EmptyData
    /\ normalized' = Normalize(EmptyData)
    /\ obsCount' = 0
    /\ obsLast' = NoUpdate
    /\ UNCHANGED <<progress, progressText, liveUrls, urlCount, clicks>>

\* uploadFile(file): the form data is built and the POST goes out
UploadFile ==
    /\ pc = "idle"
    /\ caller = "none"
    /\ NewCall("uploadFile")
    /\ format' = <<>>
    /\ exportFormat' = <<>>
    /\ CallWrapper("upload")
    /\ UNCHANGED extVars

\* the upload request resolves with a body: uploadFile reads the id and
\* returns or throws into its own catch block; handleGenerate reads
\* currentUploadId from the value returned
UploadResponse(data) ==
    /\ pc = "request"
    /\ caller = "upload"
    /\ uploadData' = data
    /\ IF Present(UploadIdOf(data))
       THEN /\ outcome' = Resolved(UploadResult(UploadIdOf(data), data))
            /\ currentUploadId' =
                 ExtractUploadId(UploadResult(UploadIdOf(data), data))
            /\ UNCHANGED caught
       ELSE /\ caught' = MsgUploadIdNotReturned
            /\ outcome' = Rejected(UploadCatch(MsgUploadIdNotReturned))
            /\ UNCHANGED currentUploadId
    /\ WrapperIdle
    /\ UNCHANGED <<op, trace, format, exportFormat, filename, liveUrls,
                   urlCount, clicks>>
    /\ UNCHANGED <<attempts, startStatus, statusData, normalized, pollOutcome>>
    /\ UNCHANGED observerVars
    /\ UNCHANGED extVars

\* the upload request fails
UploadFailure(e) ==
    /\ pc = "request"
    /\ caller = "upload"
    /\ IF RetryCatch(i, retries, ResponseInterceptor(e)) = "wait"
       THEN /\ WrapperWait
            /\ UNCHANGED <<fails, outcome, caught>>
       ELSE /\ caught' = ResponseInterceptor(e)
            /\ outcome' = Rejected(UploadCatch(ResponseInterceptor(e)))
            /\ WrapperIdle
    /\ UNCHANGED <<op, trace>>
    /\ UNCHANGED fileVars
    /\ UNCHANGED <<attempts, startStatus, statusData, normalized, pollOutcome>>
    /\ UNCHANGED observerVars
    /\ UNCHANGED extVars

\* downloadTimetable(uploadId, format): the request body is built with the
\* lower-cased format and the POST goes out
DownloadTimetable(fmt) ==
    /\ pc = "idle"
    /\ caller = "none"
    /\ urlCount < MaxDownloads
    /\ NewCall("downloadTimetable")
    /\ format' = fmt
    /\ exportFormat' = ToLowerCase(fmt)
    /\ CallWrapper("download")
    /\ UNCHANGED extVars

\* the export request resolves with a blob: object URL, link, filename,
\* click, remove, revoke
DownloadResponse ==
    /\ pc = "request"
    /\ caller = "download"
    /\ urlCount' = urlCount + 1
    /\ liveUrls' = RevokeObjectURL(CreateObjectURL(liveUrls, urlCount + 1),
                                   urlCount + 1)
    /\ filename' = Filename(SampleToday, format)
    /\ clicks' = clicks + 1
    /\ trace' = DownloadEffects
    /\ outcome' = Resolved(NoResult)
    /\ WrapperIdle
    /\ UNCHANGED <<op, caught, uploadData, currentUploadId, format,
                   exportFormat>>
    /\ UNCHANGED <<attempts, startStatus, statusData, normalized, pollOutcome>>
    /\ UNCHANGED observerVars
    /\ UNCHANGED extVars

\* the export request fails
DownloadFailure(e) ==
    /\ pc = "request"
    /\ caller = "download"
    /\ IF RetryCatch(i, retries, ResponseInterceptor(e)) = "wait"
       THEN /\ WrapperWait
            /\ UNCHANGED <<fails, outcome, caught>>
       ELSE /\ caught' = ResponseInterceptor(e)
            /\ outcome' = Rejected(DownloadCatch(ResponseInterceptor(e)))
            /\ WrapperIdle
    /\ UNCHANGED <<op, trace>>
    /\ UNCHANGED fileVars
    /\ UNCHANGED <<attempts, startStatus, statusData, normalized, pollOutcome>>
    /\ UNCHANGED observerVars
    /\ UNCHANGED extVars

\* getTimeSlots(): the GET goes out
GetTimeSlots ==
    /\ pc = "idle"
    /\ caller = "none"
    /\ NewCall("getTimeSlots")
    /\ format' = <<>>
    /\ exportFormat' = <<>>
    /\ CallWrapper("timeslots")
    /\ UNCHANGED extVars

\* the GET resolves: return response.data
TimeSlotsResponse(data) ==
    /\ pc = "request"
    /\ caller = "timeslots"
    /\ outcome' = Resolved(data)
    /\ WrapperIdle
    /\ UNCHANGED <<op, trace, caught>>
    /\ UNCHANGED fileVars
    /\ UNCHANGED <<attempts, startStatus, statusData, normalized, pollOutcome>>
    /\ UNCHANGED observerVars
    /\ UNCHANGED extVars

\* the GET fails: the wrapper's catch block and, when it throws, the catch
\* block of getTimeSlots
TimeSlotsFailure(e) ==
    /\ pc = "request"
    /\ caller = "timeslots"
    /\ IF RetryCatch(i, retries, ResponseInterceptor(e)) = "wait"
       THEN /\ WrapperWait
            /\ UNCHANGED <<fails, outcome, caught>>
       ELSE /\ caught' = ResponseInterceptor(e)
            /\ outcome' = TimeSlotsCatch(ResponseInterceptor(e))
            /\ WrapperIdle
    /\ UNCHANGED <<op, trace>>
    /\ UNCHANGED fileVars
    /\ UNCHANGED <<attempts, startStatus, statusData, normalized, pollOutcome>>
    /\ UNCHANGED observerVars
    /\ UNCHANGED extVars

FileNext ==
    \/ UploadFile
    \/ \E data \in UploadResponses : UploadResponse(data)
    \/ \E e \in AxiosErrors : UploadFailure(e)
    \/ \E fmt \in Formats : DownloadTimetable(fmt)
    \/ DownloadResponse
    \/ \E e \in AxiosErrors : DownloadFailure(e)
    \/ GetTimeSlots
    \/ \E data \in TimeSlotResponses : TimeSlotsResponse(data)
    \/ \E e \in AxiosErrors : TimeSlotsFailure(e)
    \/ BackoffElapsed

FileSpec ==
    FileInit /\ [][FileNext]_vars

\* ------------------------------------------------------------------------
\* The three exported operations, called one at a time in any order

ApiNext ==
    \/ Next
    \/ FileNext

ApiSpec ==
    Init /\ [][ApiNext]_vars

\* ------------------------------------------------------------------------
\* The completed branch of checkStatus on its own: any result to merge

\* the first status request of a loop is in flight
MergeInit ==
    /\ pc = "request"
    /\ caller = "poll"
    /\ retries = DefaultRetries
    /\ i = 0
    /\ calls = 1
    /\ delays = <<>>
    /\ fails = <<>>
    /\ attempts = 1
    /\ startStatus = 202
    /\ statusData = EmptyData
    /\ normalized = Normalize(EmptyData)
    /\ obsCount = 0
    /\ obsLast = NoUpdate
    /\ progress = 30
    /\ progressText = "Starting timetable generation..."
    /\ pollOutcome = Pending
    /\ outcome = Pending
    /\ op = "generateTimetable"
    /\ trace = <<>>
    /\ caught = <<>>
    /\ uploadData = NoUploadData
    /\ currentUploadId = None
    /\ format = <<>>
    /\ exportFormat = <<>>
    /\ filename = <<>>
    /\ liveUrls = {}
    /\ urlCount = 0
    /\ clicks = 0
    /\ ExtInit

MergeNext ==
    \E data \in MergeResponses : PollResponse(data)

MergeSpec ==
    MergeInit /\ [][MergeNext]_vars

\* TimetableGenerator.js:112: 'Please select the number of generations.'
MsgSelectGenerations ==
    <<"P","l","e","a","s","e"," ","s","e","l","e","c","t"," ","t","h","e",
      " ","n","u","m","b","e","r"," ","o","f"," ","g","e","n","e","r","a",
      "t","i","o","n","s",".">>

\* TimetableGenerator.js:157: 'An error occurred while generating the timetable'
MsgGenerateDefault ==
    <<"A","n"," ","e","r","r","o","r"," ","o","c","c","u","r","r","e","d",
      " ","w","h","i","l","e"," ","g","e","n","e","r","a","t","i","n","g",
      " ","t","h","e"," ","t","i","m","e","t","a","b","l","e">>

\* ------------------------------------------------------------------------
\* The component: TimetableGenerator with its FileUpload child. The api calls
\* it makes are taken by what they end with; a call in flight is an entry of
\* flows.

\* the files the user picks (validateFile accepts them)
FileA == "a.xlsx"

FileB == "b.xlsx"

Files ==
    {FileA, FileB}

\* the identifier the server gives to an upload of the file
HandleOf(file) ==
    IF file = FileA THEN SampleIdAbc ELSE SampleIdXyz

\* what uploadFile resolves with for the file: { uploadId, meta: data }
UploadResultOf(file) ==
    UploadResult(UploadIdOf(UploadData(Some(HandleOf(file)), None, None, NoMeta)),
                 UploadData(Some(HandleOf(file)), None, None, NoMeta))

\* the options of the generations select that the user picks from
GenerationChoices ==
    {"1", "5"}

\* a number as parseInt gives it: NaN, or a finite integer
NaN ==
    [finite |-> FALSE, n |-> 0]

Num(n) ==
    [finite |-> TRUE, n |-> n]

\* parseInt(generations, 10) on the values the select can hold
ParseInt(s) ==
    CASE s = "1" -> Num(1)
      [] s = "5" -> Num(5)
      [] s = "10" -> Num(10)
      [] s = "50" -> Num(50)
      [] s = "100" -> Num(100)
      [] OTHER -> NaN

\* Number.isFinite(gens) && gens > 0
ValidGens(gens) ==
    gens.finite /\ gens.n > 0

\* an Error thrown by api.js: a message and no response field
PlainError(msg) ==
    AxiosError(FALSE, FALSE, "", msg, 0, <<>>, <<>>)

\* variant: the fixed text whatever the error
CatchMessageDefault(err) ==
    MsgGenerateDefault

\* handleGenerate, catch blocks: the errorMessage chosen from err
CatchMessage(err) ==
    IF err.response /\ err.dataError # <<>>
    THEN err.dataError
    ELSE IF err.response /\ err.dataMessage # <<>>
         THEN err.dataMessage
         ELSE IF err.message # <<>> THEN err.message ELSE MsgGenerateDefault

\* startGeneration: the timetables read from what generateTimetable resolved
\* with (the result objects have no data and no results key)
ExtractTimetables(timetableData) ==
    IF timetableData.type = "object" /\ timetableData.timetables.def
    THEN timetableData.timetables.v
    ELSE <<>>

\* variant: the guard looks at the file only
GenerateGuardFileOnly ==
    selectedFile = Null

\* handleGenerate: the guard of its first line, true when it returns at once
GenerateGuard ==
    selectedFile = Null \/ isProcessing

\* TimetableGenerator render: the disableGenerate prop
DisableGenerate ==
    selectedFile # Null /\ (generations = "" \/ isProcessing)

\* FileUpload render: the buttons are there when a file is selected; the
\* disabled attributes of Generate and of Cancel
ButtonsRendered ==
    selectedFile # Null

GenerateDisabled ==
    isProcessing \/ DisableGenerate

CancelDisabled ==
    isProcessing

\* TimetableGenerator render: the showGenerationsSelector prop
ShowGenerationsSelector ==
    selectedFile # Null /\ awaitingGenerations

\* an api call of the component in flight: uploadFile(file), or
\* generateTimetable(handle, progressCallback, options). gens is the
\* generations value the closure of the click holds, selected the file that
\* was selected when generateTimetable was called.
UploadFlow(file, gens) ==
    [stage |-> "upload", file |-> file, handle |-> None, gens |-> gens,
     selected |-> Null]

GenerationFlow(file, handle, gens, selected) ==
    [stage |-> "generate", file |-> file, handle |-> handle, gens |-> gens,
     selected |-> selected]

RemoveAt(s, k) ==
    [j \in 1..(Len(s) - 1) |-> IF j < k THEN s[j] ELSE s[j + 1]]

\* the results and the failures the api calls of the component end with
TimetableResults ==
    {ResTimetables, NoResult}

UploadErrors ==
    {PlainError(UploadCatch(MsgCannotReach))}

\* (generateTimetable always throws 'Timetable generation failed: ' + msg)
GenerationErrors ==
    {PlainError(GenerationCatch(MsgTimeout)),
     PlainError(GenerationCatch(MsgCannotReach))}

ProgressUpdates ==
    {[percentage |-> 50, message |-> "Working"], CompletedUpdate,
     [percentage |-> 0, message |-> "Processing..."],
     [percentage |-> 0 - 5, message |-> "Queued"],
     [percentage |-> 150, message |-> "Finishing"]}

apiVars ==
    <<wrapperVars, pollVars, logVars, fileVars, obsCount, obsLast, pairVars,
      interceptVars, bodyVars, statusRequests>>

\* FileUpload.handleFileChange / handleDrop -> handleFileSelect(file): the
\* file input is there whatever the component is doing
HandleFileSelect(file) ==
    /\ selectedFile' = file
    /\ error' = <<>>
    /\ generatedData' = <<>>
    /\ uploadId' = None
    /\ generations' = ""
    /\ awaitingGenerations' = TRUE
    /\ UNCHANGED <<isProcessing, progress, progressText, flows, timers>>
    /\ UNCHANGED apiVars

\* a click on Cancel -> handleFileReset
HandleFileReset ==
    /\ ButtonsRendered
    /\ ~CancelDisabled
    /\ selectedFile' = Null
    /\ uploadId' = None
    /\ isProcessing' = FALSE
    /\ progress' = 0
    /\ progressText' = ""
    /\ generatedData' = <<>>
    /\ error' = <<>>
    /\ generations' = ""
    /\ awaitingGenerations' = FALSE
    /\ UNCHANGED <<flows, timers>>
    /\ UNCHANGED apiVars

\* a change of the generations select -> setGenerations(val)
OnGenerationsChange(val) ==
    /\ ButtonsRendered
    /\ ShowGenerationsSelector
    /\ generations' = val
    /\ UNCHANGED <<selectedFile, uploadId, isProcessing, awaitingGenerations,
                   generatedData, error, flows, timers, progress,
                   progressText>>
    /\ UNCHANGED apiVars

\* startGeneration(currentUploadId) up to its await: the progress display and
\* the generateTimetable call, made by the flow with the given fields
StartGeneration(newFlows) ==
    /\ progress' = 30
    /\ progressText' = "Starting timetable generation..."
    /\ flows' = newFlows

\* a click on Generate -> handleGenerate, up to its first await
HandleGenerate ==
    /\ ButtonsRendered
    /\ ~GenerateDisabled
    /\ UNCHANGED apiVars
    /\ UNCHANGED <<selectedFile, uploadId, generations, timers>>
    /\ IF GenerateGuard
       THEN UNCHANGED <<isProcessing, awaitingGenerations, generatedData,
                        error, flows, progress, progressText>>
       ELSE IF ~ValidGens(ParseInt(generations))
       THEN /\ error' = MsgSelectGenerations
            /\ UNCHANGED <<isProcessing, awaitingGenerations, generatedData,
                           flows, progress, progressText>>
       ELSE IF ~Present(uploadId)
       THEN /\ isProcessing' = TRUE
            /\ error' = <<>>
            /\ generatedData' = <<>>
            /\ progress' = 10
            /\ progressText' = "Uploading file..."
            /\ flows' = Append(flows, UploadFlow(selectedFile, generations))
            /\ UNCHANGED awaitingGenerations
       ELSE /\ isProcessing' = TRUE
            /\ awaitingGenerations' = FALSE
            /\ StartGeneration(Append(flows,
                 GenerationFlow(Null, uploadId, generations, selectedFile)))
            /\ UNCHANGED <<generatedData, error>>

\* uploadFile resolves (always with a truthy uploadId, setupProxy.js 178-183):
\* handleGenerate goes on after its await, up to the await in startGeneration
UploadResolves(k) ==
    /\ k \in DOMAIN flows
    /\ flows[k].stage = "upload"
    /\ uploadId' = ExtractUploadId(UploadResultOf(flows[k].file))
    /\ awaitingGenerations' = FALSE
    /\ StartGeneration([flows EXCEPT ![k] =
         GenerationFlow(flows[k].file,
                        ExtractUploadId(UploadResultOf(flows[k].file)),
                        flows[k].gens, selectedFile)])
    /\ UNCHANGED <<selectedFile, isProcessing, generations, generatedData,
                   error, timers>>
    /\ UNCHANGED apiVars

\* handleGenerate: either catch block
FlowCatch(k, err) ==
    /\ error' = CatchMessage(err)
    /\ isProcessing' = FALSE
    /\ progress' = 0
    /\ progressText' = ""
    /\ flows' = RemoveAt(flows, k)
    /\ UNCHANGED <<selectedFile, uploadId, generations, awaitingGenerations,
                   generatedData, timers>>
    /\ UNCHANGED apiVars

\* uploadFile rejects
UploadRejects(k, err) ==
    /\ k \in DOMAIN flows
    /\ flows[k].stage = "upload"
    /\ FlowCatch(k, err)

\* generateTimetable calls the observer of a flow
GenerationProgress(k, progressData) ==
    /\ k \in DOMAIN flows
    /\ flows[k].stage = "generate"
    /\ ProgressCallback(progressData)
    /\ UNCHANGED uiVars
    /\ UNCHANGED apiVars

\* generateTimetable resolves: startGeneration goes on after its await
GenerationResolves(k, timetableData) ==
    /\ k \in DOMAIN flows
    /\ flows[k].stage = "generate"
    /\ progress' = 100
    /\ progressText' = "Complete!"
    /\ generatedData' = ExtractTimetables(timetableData)
    /\ timers' = timers + 1
    /\ flows' = RemoveAt(flows, k)
    /\ UNCHANGED <<selectedFile, uploadId, isProcessing, generations,
                   awaitingGenerations, error>>
    /\ UNCHANGED apiVars

\* generateTimetable rejects
GenerationRejects(k, err) ==
    /\ k \in DOMAIN flows
    /\ flows[k].stage = "generate"
    /\ FlowCatch(k, err)

\* the 1500 ms timer of startGeneration fires
ResetTimerFires ==
    /\ timers > 0
    /\ timers' = timers - 1
    /\ isProcessing' = FALSE
    /\ progress' = 0
    /\ progressText' = ""
    /\ UNCHANGED <<selectedFile, uploadId, generations, awaitingGenerations,
                   generatedData, error, flows>>
    /\ UNCHANGED apiVars

UINext ==
    \/ \E file \in Files : HandleFileSelect(file)
    \/ HandleFileReset
    \/ \E val \in GenerationChoices : OnGenerationsChange(val)
    \/ HandleGenerate
    \/ \E k \in DOMAIN flows : UploadResolves(k)
    \/ \E k \in DOMAIN flows, err \in UploadErrors : UploadRejects(k, err)
    \/ \E k \in DOMAIN flows, progressData \in ProgressUpdates :
         GenerationProgress(k, progressData)
    \/ \E k \in DOMAIN flows, timetableData \in TimetableResults :
         GenerationResolves(k, timetableData)
    \/ \E k \in DOMAIN flows, err \in GenerationErrors :
         GenerationRejects(k, err)
    \/ ResetTimerFires

UISpec ==
    Init /\ [][UINext]_vars

\* ------------------------------------------------------------------------
\* Two concurrent calls of generateTimetable for the same uploadId. Each call
\* has its own promise, its own progressCallback and, in pollForCompletion,
\* its own maxAttempts and attempts; a status request is taken by what the
\* wrapper ends with.

\* variant: one attempts variable at module level
AttemptScopeShared(l) ==
    1

\* let attempts = 0 inside pollForCompletion: one variable per call
AttemptScope(l) ==
    l

Attempts(l) ==
    counters[AttemptScope(l)]

\* the status bodies and the failures the two loops are answered with
PairResponses ==
    {StatusData("processing", Undefined, Undefined, JSVal("number", 40),
                "Halfway", NoResult, <<>>, <<>>),
     StatusData("completed", Undefined, Undefined, JSVal("number", 100),
                Undefined, ResTimetables, <<>>, <<>>)}

PairErrors ==
    {ErrHttp500}

soloVars ==
    <<wrapperVars, observerVars, pollVars, logVars, fileVars, uiVars,
      interceptVars, bodyVars, statusRequests>>

\* generateTimetable(uploadId, progressCallback, options) is called: the
\* start request goes out
PairCall(l) ==
    /\ loops[l].pc = "none"
    /\ loops' = [loops EXCEPT ![l] = [pc |-> "start", obsCount |-> 0,
                                      outcome |-> Pending]]
    /\ UNCHANGED counters
    /\ UNCHANGED soloVars

\* the start request resolves: on 202 pollForCompletion is called and
\* checkStatus runs up to its await
PairStartResponse(l, status) ==
    /\ loops[l].pc = "start"
    /\ IF StartAccepted(status)
       THEN /\ loops' = [loops EXCEPT ![l].pc = "request"]
            /\ counters' = [counters EXCEPT ![AttemptScope(l)] = 0 + 1]
       ELSE /\ loops' = [loops EXCEPT
                           ![l].pc = "done",
                           ![l].outcome =
                             Rejected(GenerationCatch(MsgFailedToStart))]
            /\ UNCHANGED counters
    /\ UNCHANGED soloVars

\* checkStatus after its await, for a status request that resolved with data
PairPollResponse(l, data) ==
    /\ loops[l].pc = "request"
    /\ IF IsCompleted(Normalize(data).status)
       THEN loops' = [loops EXCEPT
                        ![l].pc = "done",
                        ![l].obsCount = @ + 2,
                        ![l].outcome =
                          Resolved(MergeResult(Normalize(data).result))]
       ELSE IF IsError(Normalize(data).status)
       THEN loops' = [loops EXCEPT
                        ![l].pc = "done",
                        ![l].obsCount = @ + 1,
                        ![l].outcome =
                          Rejected(GenerationCatch(
                            OrElse(Normalize(data).error,
                                   MsgGenerationFailed)))]
       ELSE IF CeilingReached(Attempts(l))
       THEN loops' = [loops EXCEPT
                        ![l].pc = "done",
                        ![l].obsCount = @ + 1,
                        ![l].outcome =
                          Rejected(GenerationCatch(MsgTimeout))]
       ELSE loops' = [loops EXCEPT ![l].pc = "sleep",
                                   ![l].obsCount = @ + 1]
    /\ UNCHANGED counters
    /\ UNCHANGED soloVars

\* the wrapper throws: the catch block of checkStatus
PairPollFailure(l, e) ==
    /\ loops[l].pc = "request"
    /\ RetryCatch(0, DefaultRetries, ResponseInterceptor(e)) = "throw"
    /\ loops' = [loops EXCEPT
                   ![l].pc = "done",
                   ![l].outcome =
                     Rejected(GenerationCatch(
                       PollCatch(ResponseInterceptor(e))))]
    /\ UNCHANGED counters
    /\ UNCHANGED soloVars

\* the 5000 ms timer of a loop fires: attempts++ and the next status request
PairTimerFires(l) ==
    /\ loops[l].pc = "sleep"
    /\ loops' = [loops EXCEPT ![l].pc = "request"]
    /\ counters' = [counters EXCEPT ![AttemptScope(l)] = @ + 1]
    /\ UNCHANGED soloVars

PairStep(l) ==
    \/ PairCall(l)
    \/ \E status \in StartStatuses : PairStartResponse(l, status)
    \/ \E data \in PairResponses : PairPollResponse(l, data)
    \/ \E e \in PairErrors : PairPollFailure(l, e)
    \/ PairTimerFires(l)

PairNext ==
    \E l \in LoopIds : PairStep(l)

PairSpec ==
    Init /\ [][PairNext]_vars

\* ------------------------------------------------------------------------
\* The response interceptor on its own: any failure axios can hand to it

\* axios sets error.request whenever a request was sent and error.response
\* only with it; an error raised before sending has neither and no code
InterceptInputs ==
    AxiosErrors
      \cup {AxiosError(TRUE, TRUE, code, message, status, dataMessage, dataError) :
              code \in {"ERR_BAD_RESPONSE", "ERR_BAD_REQUEST"},
              message \in {<<>>, SampleNetworkError},
              status \in {0, 400, 500},
              dataMessage \in {<<>>, SampleBackendBusy},
              dataError \in {<<>>, SampleInvalidFile}}
      \cup {AxiosError(TRUE, FALSE, code, message, 0, <<>>, <<>>) :
              code \in {"ERR_NETWORK", "ECONNABORTED", ""},
              message \in {<<>>, SampleNetworkError, SampleTimeout}}
      \cup {AxiosError(FALSE, FALSE, "", message, 0, <<>>, <<>>) :
              message \in {<<>>, SampleTimeout}}

InterceptInit ==
    /\ ApiInit
    /\ UIInit
    /\ PairInit
    /\ BodyIdle
    /\ statusRequests = 0
    /\ axiosError \in InterceptInputs
    /\ thrown = None

\* the rejection handler runs on the failure and throws
Intercept ==
    /\ thrown = None
    /\ thrown' = Some(ResponseInterceptor(axiosError))
    /\ UNCHANGED <<axiosError, wrapperVars, observerVars, pollVars, logVars,
                   fileVars, uiVars, pairVars, bodyVars, statusRequests>>

InterceptNext ==
    Intercept

InterceptSpec ==
    InterceptInit /\ [][InterceptNext]_vars

\* ------------------------------------------------------------------------
\* The interceptor and the wrapper together: one request sent through
\* makeRequestWithRetry, the failure of each attempt passing through the
\* interceptor before the catch block sees it

\* the failures of InterceptInputs that axios produces as such: a timeout
\* carries the timeout message, a network error the network message
TransportErrors ==
    {e \in InterceptInputs :
       ~e.response /\ e.request
       => /\ (e.code = "ECONNABORTED" <=> e.message = SampleTimeout)
          /\ (e.code = "ERR_NETWORK" <=> e.message = SampleNetworkError)}

\* makeRequestWithRetry(() => apiClient.<method>(...)) is called
TransportCall ==
    /\ pc = "idle"
    /\ caller = "none"
    /\ CallWrapper("transport")
    /\ outcome' = Pending
    /\ axiosError' = ErrSetup
    /\ thrown' = None
    /\ UNCHANGED <<attempts, startStatus, statusData, normalized, pollOutcome>>
    /\ UNCHANGED <<observerVars, logVars, fileVars, uiVars, pairVars,
                   bodyVars, statusRequests>>

\* the request resolves: return await requestFn()
TransportResponse ==
    /\ pc = "request"
    /\ caller = "transport"
    /\ outcome' = Resolved(NoResult)
    /\ WrapperIdle
    /\ UNCHANGED <<attempts, startStatus, statusData, normalized, pollOutcome>>
    /\ UNCHANGED <<observerVars, logVars, fileVars, extVars>>

\* the request fails with e: the interceptor throws its Error, the catch block
\* of the wrapper waits or throws it on
TransportFailure(e) ==
    /\ pc = "request"
    /\ caller = "transport"
    /\ axiosError' = e
    /\ thrown' = Some(ResponseInterceptor(e))
    /\ IF RetryCatch(i, retries, ResponseInterceptor(e)) = "wait"
       THEN /\ WrapperWait
            /\ UNCHANGED <<fails, outcome>>
       ELSE /\ outcome' = Rejected(ResponseInterceptor(e))
            /\ pc' = "idle"
            /\ caller' = "none"
            /\ UNCHANGED <<retries, i, calls, delays, fails>>
    /\ UNCHANGED <<attempts, startStatus, statusData, normalized, pollOutcome>>
    /\ UNCHANGED <<observerVars, logVars, fileVars, uiVars, pairVars,
                   bodyVars, statusRequests>>

TransportNext ==
    \/ TransportCall
    \/ TransportResponse
    \/ \E e \in TransportErrors : TransportFailure(e)
    \/ BackoffElapsed

TransportSpec ==
    Init /\ [][TransportNext]_vars

\* ------------------------------------------------------------------------
\* The body of the start request on its own: any uploadId, any options

\* a non-integer number, in tenths
Decimal(tenths) ==
    [finite |-> TRUE, tenths |-> tenths]

\* an object argument: its own keys and their values
Object(o) ==
    [type |-> "object", value |-> o]

EmptyObject ==
    [k \in {} |-> NaN]

\* the config literal of the body; the REACT_APP_DE_* variables are not set,
\* so each Number(undefined) || d gives d
DefaultConfig ==
    [population_size |-> Num(25), max_generations |-> Num(10),
     F |-> Decimal(4), CR |-> Decimal(9)]

\* { ...a, ...b }
Spread(a, b) ==
    [k \in DOMAIN a \cup DOMAIN b |-> IF k \in DOMAIN b THEN b[k] ELSE a[k]]

\* variant: the defaults are spread over the options
StartBodyDefaultsWin(id, opts) ==
    [upload_id |-> id,
     config |-> IF opts.type = "object"
                THEN Spread(opts.value, DefaultConfig)
                ELSE DefaultConfig]

\* generateTimetable: the body literal and the override of its config
StartBody(id, opts) ==
    [upload_id |-> id,
     config |-> IF opts.type = "object"
                THEN Spread(DefaultConfig, opts.value)
                ELSE DefaultConfig]

\* startGeneration: the options it passes for the generations the select holds
StartOptions(gens) ==
    IF ValidGens(ParseInt(gens))
    THEN Object([max_generations |-> ParseInt(gens)])
    ELSE Object(EmptyObject)

\* the options arguments: what startGeneration passes, no argument, null, a
\* string, and objects that name other keys
OptionInputs ==
    {StartOptions(gens) : gens \in {"", "1", "5", "10", "50", "100"}}
      \cup {NoOptions, [type |-> "null", value |-> <<>>],
            [type |-> "string", value |-> <<"f","a","s","t">>]}
      \cup {Object([k \in keys |-> IF k \in {"F", "CR"} THEN Decimal(5)
                                   ELSE Num(7)]) :
              keys \in SUBSET {"population_size", "max_generations", "F",
                               "CR", "seed"}}

UploadIdInputs ==
    {SampleIdAbc, SampleIdXyz, SampleIdMeta}

BodyInit ==
    /\ ApiInit
    /\ UIInit
    /\ PairInit
    /\ InterceptIdle
    /\ statusRequests = 0
    /\ uploadIdArg \in UploadIdInputs
    /\ options \in OptionInputs
    /\ body = None

\* generateTimetable(uploadId, progressCallback, options) up to its await
BuildBody ==
    /\ body = None
    /\ body' = Some(StartBody(uploadIdArg, options))
    /\ UNCHANGED <<uploadIdArg, options, wrapperVars, observerVars, pollVars,
                   logVars, fileVars, uiVars, pairVars, interceptVars,
                   statusRequests>>

BodyNext ==
    BuildBody

BodySpec ==
    BodyInit /\ [][BodyNext]_vars

\* ------------------------------------------------------------------------
\* One polling loop with its status requests counted

LoopResponses ==
    {StatusData("processing", Undefined, Undefined, JSVal("number", 40),
                "Halfway", NoResult, <<>>, <<>>),
     StatusData("completed", Undefined, Undefined, JSVal("number", 100),
                Undefined, ResTimetables, <<>>, <<>>)}

LoopErrors ==
    {ErrRefused, ErrHttp500}

loopRest ==
    <<startStatus, statusData, normalized, outcome, observerVars, logVars,
      fileVars, uiVars, pairVars, interceptVars, bodyVars>>

\* pollForCompletion(uploadId, progressCallback) is called: attempts = 0,
\* checkStatus runs up to its await and the first status request goes out
LoopCall ==
    /\ pc = "idle"
    /\ caller = "none"
    /\ pollOutcome = NoCall
    /\ attempts' = 0 + 1
    /\ pollOutcome' = Pending
    /\ statusRequests' = 1
    /\ CallWrapper("poll")
    /\ UNCHANGED loopRest

\* checkStatus after its await, for a status request that resolved with data
LoopResponse(data) ==
    /\ pc = "request"
    /\ caller = "poll"
    /\ IF IsCompleted(Normalize(data).status)
       THEN /\ pollOutcome' = Resolved(MergeResult(Normalize(data).result))
            /\ WrapperIdle
       ELSE IF IsError(Normalize(data).status)
       THEN /\ pollOutcome' = Rejected(OrElse(Normalize(data).error,
                                               MsgGenerationFailed))
            /\ WrapperIdle
       ELSE IF CeilingReached(attempts)
       THEN /\ pollOutcome' = Rejected(MsgTimeout)
            /\ WrapperIdle
       ELSE \* setTimeout(checkStatus, 5000)
            /\ pc' = "sleep"
            /\ i' = 0
            /\ calls' = 0
            /\ delays' = <<>>
            /\ UNCHANGED <<caller, retries, fails, pollOutcome>>
    /\ UNCHANGED <<attempts, statusRequests>>
    /\ UNCHANGED loopRest

\* the status request fails: the catch block of the wrapper and, when it
\* throws, the catch block of checkStatus
LoopFailure(e) ==
    /\ pc = "request"
    /\ caller = "poll"
    /\ IF RetryCatch(i, retries, ResponseInterceptor(e)) = "wait"
       THEN /\ WrapperWait
            /\ UNCHANGED <<fails, pollOutcome>>
       ELSE /\ pollOutcome' = Rejected(PollCatch(ResponseInterceptor(e)))
            /\ WrapperIdle
    /\ UNCHANGED <<attempts, statusRequests>>
    /\ UNCHANGED loopRest

\* the backoff timer fires: i++, the loop test, the status request again
LoopBackoffElapsed ==
    /\ pc = "backoff"
    /\ caller = "poll"
    /\ pc' = "request"
    /\ i' = i + 1
    /\ calls' = calls + 1
    /\ statusRequests' = statusRequests + 1
    /\ UNCHANGED <<caller, retries, delays, fails, attempts, pollOutcome>>
    /\ UNCHANGED loopRest

\* the 5000 ms timer fires: attempts++ and the next status request
LoopTimerFires ==
    /\ pc = "sleep"
    /\ attempts' = attempts + 1
    /\ statusRequests' = statusRequests + 1
    /\ CallWrapper("poll")
    /\ UNCHANGED pollOutcome
    /\ UNCHANGED loopRest

LoopNext ==
    \/ LoopCall
    \/ \E data \in LoopResponses : LoopResponse(data)
    \/ \E e \in LoopErrors : LoopFailure(e)
    \/ LoopBackoffElapsed
    \/ LoopTimerFires

LoopSpec ==
    Init /\ [][LoopNext]_vars

\* ------------------------------------------------------------------------
\* The component with the Download control of Header: handleDownload and the
\* canDownload prop (TimetableGenerator.js 442-491, Header.js). The items of
\* the dropdown are never disabled themselves, so handleDownload is taken at
\* any state of the component and guards itself. A download in flight is a
\* call in flows: its handle and its format are the arguments of
\* downloadTimetable.

\* TimetableGenerator.js:196: 'No timetable data available for download - missing upload ID'
MsgNoUploadId ==
    <<"N","o"," ","t","i","m","e","t","a","b","l","e"," ","d","a","t","a",
      " ","a","v","a","i","l","a","b","l","e"," ","f","o","r"," ","d","o",
      "w","n","l","o","a","d"," ","-"," ","m","i","s","s","i","n","g"," ",
      "u","p","l","o","a","d"," ","I","D">>

\* TimetableGenerator.js:201: 'No timetable data available for download - no generated data'
MsgNoGeneratedData ==
    <<"N","o"," ","t","i","m","e","t","a","b","l","e"," ","d","a","t","a",
      " ","a","v","a","i","l","a","b","l","e"," ","f","o","r"," ","d","o",
      "w","n","l","o","a","d"," ","-"," ","n","o"," ","g","e","n","e","r",
      "a","t","e","d"," ","d","a","t","a">>

\* TimetableGenerator.js:212: 'An error occurred while downloading'
MsgDownloadDefault ==
    <<"A","n"," ","e","r","r","o","r"," ","o","c","c","u","r","r","e","d",
      " ","w","h","i","l","e"," ","d","o","w","n","l","o","a","d","i","n",
      "g">>

\* bound: the downloadTimetable calls of the component in flight at a time
MaxExports == 1

\* Header: the formats of the three dropdown items
HeaderFormats ==
    {<<"e","x","c","e","l">>, <<"p","d","f">>, <<"i","m","a","g","e">>}

DownloadErrors ==
    {PlainError(DownloadCatch(MsgCannotReach))}

DownloadFlow(handle, fmt) ==
    [stage |-> "download", handle |-> handle, format |-> fmt]

\* the downloadTimetable calls in flight
Downloads(calls_) ==
    {k \in DOMAIN calls_ : calls_[k].stage = "download"}

\* variant: the control looks at the data and the handle only
CanDownloadWhileProcessing ==
    Len(generatedData) > 0 /\ Present(uploadId)

\* render: canDownload={generatedData.length > 0 && uploadId && !isProcessing}
CanDownload ==
    Len(generatedData) > 0 /\ Present(uploadId) /\ ~isProcessing

\* Header: the Download button has disabled={!canDownload}
DownloadDisabled ==
    ~CanDownload

\* handleDownload, catch block: the errorMessage chosen from err
DownloadCatchMessage(err) ==
    IF err.response /\ err.dataError # <<>>
    THEN err.dataError
    ELSE IF err.response /\ err.dataMessage # <<>>
         THEN err.dataMessage
         ELSE IF err.message # <<>> THEN err.message ELSE MsgDownloadDefault

\* a click on an item of the dropdown -> handleDownload(format), up to its
\* await
HandleDownload(fmt) ==
    /\ IF ~Present(uploadId)
       THEN /\ error' = MsgNoUploadId
            /\ UNCHANGED flows
       ELSE IF Len(generatedData) = 0
       THEN /\ error' = MsgNoGeneratedData
            /\ UNCHANGED flows
       ELSE /\ Cardinality(Downloads(flows)) < MaxExports
            /\ flows' = Append(flows, DownloadFlow(uploadId, fmt))
            /\ UNCHANGED error
    /\ UNCHANGED <<selectedFile, uploadId, isProcessing, generations,
                   awaitingGenerations, generatedData, timers, progress,
                   progressText>>
    /\ UNCHANGED apiVars

\* downloadTimetable resolves: handleDownload only logs
DownloadResolves(k) ==
    /\ k \in DOMAIN flows
    /\ flows[k].stage = "download"
    /\ flows' = RemoveAt(flows, k)
    /\ UNCHANGED <<selectedFile, uploadId, isProcessing, generations,
                   awaitingGenerations, generatedData, error, timers,
                   progress, progressText>>
    /\ UNCHANGED apiVars

\* downloadTimetable rejects: the catch block of handleDownload
DownloadRejects(k, err) ==
    /\ k \in DOMAIN flows
    /\ flows[k].stage = "download"
    /\ error' = DownloadCatchMessage(err)
    /\ flows' = RemoveAt(flows, k)
    /\ UNCHANGED <<selectedFile, uploadId, isProcessing, generations,
                   awaitingGenerations, generatedData, timers, progress,
                   progressText>>
    /\ UNCHANGED apiVars

ExportNext ==
    \/ UINext
    \/ \E fmt \in HeaderFormats : HandleDownload(fmt)
    \/ \E k \in DOMAIN flows : DownloadResolves(k)
    \/ \E k \in DOMAIN flows, err \in DownloadErrors : DownloadRejects(k, err)

ExportSpec ==
    Init /\ [][ExportNext]_vars

\* ------------------------------------------------------------------------
\* FileUpload: the file input and the drop zone hand a file to validateFile
\* and, when it returns true, to onFileSelect. REACT_APP_ALLOWED_FILE_TYPES
\* and REACT_APP_MAX_FILE_SIZE are taken as unset. trace is the list of the
\* files onFileSelect was called with, caught the text of the last alert.

\* FileUpload.js:55: 'Please select a valid Excel file (.xlsx or .xls)'
MsgInvalidExcel ==
    <<"P","l","e","a","s","e"," ","s","e","l","e","c","t"," ","a"," ","v",
      "a","l","i","d"," ","E","x","c","e","l"," ","f","i","l","e"," ","(",
      ".","x","l","s","x"," ","o","r"," ",".","x","l","s",")">>

\* FileUpload.js:60: 'File size must be less than 10MB'
MsgFileTooLarge ==
    <<"F","i","l","e"," ","s","i","z","e"," ","m","u","s","t"," ","b","e",
      " ","l","e","s","s"," ","t","h","a","n"," ","1","0","M","B">>

\* validateFile: allowedTypes, ['.xlsx', '.xls']
AllowedTypes ==
    {<<".","x","l","s","x">>, <<".","x","l","s">>}

\* validateFile: maxSize, 10485760
DefaultMaxSize == 10485760

\* the positions of the dots of a name
Dots(name) ==
    {k \in 1..Len(name) : name[k] = "."}

\* name.split('.').pop(): the text after the last dot, the whole name when it
\* has no dot
LastSegment(name) ==
    IF Dots(name) = {}
    THEN name
    ELSE SubSeq(name, (CHOOSE k \in Dots(name) :
                         \A j \in Dots(name) : j <= k) + 1, Len(name))

\* validateFile: fileExtension
FileExtension(name) ==
    <<".">> \o ToLowerCase(LastSegment(name))

\* variant: a file of exactly the maximum size is rejected as well
ValidateFileStrictSize(file) ==
    IF FileExtension(file.name) \notin AllowedTypes
    THEN [ok |-> FALSE, alert |-> MsgInvalidExcel]
    ELSE IF file.size >= DefaultMaxSize
         THEN [ok |-> FALSE, alert |-> MsgFileTooLarge]
         ELSE [ok |-> TRUE, alert |-> <<>>]

\* validateFile(file): what it returns and the alert it shows
ValidateFile(file) ==
    IF FileExtension(file.name) \notin AllowedTypes
    THEN [ok |-> FALSE, alert |-> MsgInvalidExcel]
    ELSE IF file.size > DefaultMaxSize
         THEN [ok |-> FALSE, alert |-> MsgFileTooLarge]
         ELSE [ok |-> TRUE, alert |-> <<>>]

\* the names and sizes of the files a user can offer
FileNames ==
    {<<"a",".","x","l","s","x">>, <<"a",".","x","l","s">>,
     <<"a",".","X","L","S","X">>,
     <<"a",".","p","d","f">>, <<"a",".","x","l","s","x",".","p","d","f">>,
     <<"a",".","p","d","f",".","x","l","s">>, <<"a",".","x","l","s","m">>,
     <<"a",".","x","l","s","x",".">>, <<"a","x","l","s","x">>,
     <<"x","l","s","x">>, <<"X","L","S">>,
     <<"a">>, <<>>}

FileSizes ==
    {1024, DefaultMaxSize, DefaultMaxSize + 1}

OfferedFiles ==
    [name : FileNames, size : FileSizes]

\* the files that follow the first one in a drop of several files
DropRest ==
    {<<>>,
     <<[name |-> <<"b",".","x","l","s","x">>, size |-> 1024]>>,
     <<[name |-> <<"b",".","p","d","f">>, size |-> 1024]>>}

validateRest ==
    <<wrapperVars, pollVars, fileVars, observerVars, op, extVars>>

\* handleFileChange / handleDrop share: validateFile, then onFileSelect
OfferFile(file) ==
    IF ValidateFile(file).ok
    THEN /\ Len(trace) < MaxLen
         /\ trace' = Append(trace, file)
         /\ UNCHANGED caught
    ELSE /\ caught' = ValidateFile(file).alert
         /\ UNCHANGED trace

\* the file input changes: event.target.files[0], when there is one
HandleFileChange(files) ==
    /\ IF Len(files) > 0
       THEN OfferFile(files[1])
       ELSE UNCHANGED <<trace, caught>>
    /\ UNCHANGED validateRest

\* files are dropped on the zone: only files[0] is looked at
HandleDrop(files) ==
    /\ IF Len(files) > 0
       THEN OfferFile(files[1])
       ELSE UNCHANGED <<trace, caught>>
    /\ UNCHANGED validateRest

ValidateNext ==
    \/ \E file \in OfferedFiles : HandleFileChange(<<file>>)
    \/ \E file \in OfferedFiles, rest \in DropRest :
         HandleDrop(<<file>> \o rest)

ValidateSpec ==
    Init /\ [][ValidateNext]_vars

\* ------------------------------------------------------------------------
\* One polling loop as the event loop runs it: flows holds the calls of
\* makeRequestWithRetry that checkStatus is awaiting (its status request is
\* in flight, or it waits for its backoff), timers counts the pending
\* setTimeout(checkStatus, 5000) timers. Nothing here says that there is one
\* of them at most.

ChainResponses ==
    {StatusData("processing", Undefined, Undefined, JSVal("number", 40),
                "Halfway", NoResult, <<>>, <<>>),
     EmptyData,
     StatusData("failed", Undefined, Undefined, JSVal("number", 10),
                Undefined, NoResult, <<>>, <<>>),
     StatusData("done", Undefined, Undefined, JSVal("number", 100),
                Undefined, ResTimetables, <<>>, <<>>),
     StatusData("Error", Undefined, Undefined, JSVal("number", 40),
                Undefined, NoResult, SampleSolverCrashed, <<>>),
     StatusData(Undefined, "Completed", Undefined, NoProgress,
                Undefined, ResRaw, <<>>, <<>>),
     StatusData("completed", Undefined, Undefined, JSVal("number", 100),
                Undefined, ResTimetables, <<>>, <<>>),
     StatusData("error", Undefined, Undefined, JSVal("number", 40),
                Undefined, NoResult, SampleSolverCrashed, <<>>)}

ChainErrors ==
    {ErrRefused, ErrHttp500}

\* a call of makeRequestWithRetry by checkStatus, at iteration it
StatusCall(stage, it) ==
    [stage |-> stage, i |-> it]

\* the status requests in flight
Outstanding(calls_) ==
    {k \in DOMAIN calls_ : calls_[k].stage = "request"}

\* variant: no return after resolve and reject, the timer is set after every
\* answered poll
SchedulesNextAlways(status, n) ==
    TRUE

\* checkStatus reaches setTimeout(checkStatus, 5000): none of the three
\* returns before it was taken
SchedulesNext(status, n) ==
    ~IsCompleted(status) /\ ~IsError(status) /\ ~CeilingReached(n)

\* resolve / reject on the promise of the loop: a settled promise stays
Settle(result) ==
    pollOutcome' = IF pollOutcome = Pending THEN result ELSE pollOutcome

chainRest ==
    <<wrapperVars, startStatus, statusData, obsLast, progress, progressText,
      outcome, logVars, fileVars, selectedFile, uploadId, isProcessing,
      generations, awaitingGenerations, generatedData, error, pairVars,
      interceptVars, bodyVars, statusRequests>>

\* pollForCompletion is called: checkStatus runs up to its await
ChainCall ==
    /\ pollOutcome = NoCall
    /\ attempts' = 0 + 1
    /\ pollOutcome' = Pending
    /\ flows' = Append(flows, StatusCall("request", 0))
    /\ UNCHANGED <<normalized, obsCount, timers>>
    /\ UNCHANGED chainRest

\* a status request resolves: checkStatus after its await
ChainResponse(k, data) ==
    /\ k \in Outstanding(flows)
    /\ flows' = RemoveAt(flows, k)
    /\ normalized' = Normalize(data)
    /\ obsCount' = obsCount + (IF IsCompleted(Normalize(data).status)
                               THEN 2 ELSE 1)
    /\ IF IsCompleted(Normalize(data).status)
       THEN Settle(Resolved(MergeResult(Normalize(data).result)))
       ELSE IF IsError(Normalize(data).status)
       THEN Settle(Rejected(OrElse(Normalize(data).error,
                                   MsgGenerationFailed)))
       ELSE IF CeilingReached(attempts)
       THEN Settle(Rejected(MsgTimeout))
       ELSE UNCHANGED pollOutcome
    /\ timers' = IF SchedulesNext(Normalize(data).status, attempts)
                 THEN timers + 1 ELSE timers
    /\ UNCHANGED attempts
    /\ UNCHANGED chainRest

\* a status request fails: the catch block of the wrapper and, when it
\* throws, the catch block of checkStatus
ChainFailure(k, e) ==
    /\ k \in Outstanding(flows)
    /\ IF RetryCatch(flows[k].i, DefaultRetries, ResponseInterceptor(e))
            = "wait"
       THEN /\ flows' = [flows EXCEPT ![k] = StatusCall("backoff", flows[k].i)]
            /\ UNCHANGED pollOutcome
       ELSE /\ flows' = RemoveAt(flows, k)
            /\ Settle(Rejected(PollCatch(ResponseInterceptor(e))))
    /\ UNCHANGED <<attempts, normalized, obsCount, timers>>
    /\ UNCHANGED chainRest

\* a backoff timer fires: i++, the loop test, the status request again
ChainBackoffElapsed(k) ==
    /\ k \in DOMAIN flows
    /\ flows[k].stage = "backoff"
    /\ flows' = [flows EXCEPT ![k] = StatusCall("request", flows[k].i + 1)]
    /\ UNCHANGED <<attempts, pollOutcome, normalized, obsCount, timers>>
    /\ UNCHANGED chainRest

\* a 5000 ms timer fires: checkStatus runs up to its await
ChainTimerFires ==
    /\ timers > 0
    /\ attempts < maxAttempts + 2
    /\ timers' = timers - 1
    /\ attempts' = attempts + 1
    /\ flows' = Append(flows, StatusCall("request", 0))
    /\ UNCHANGED <<pollOutcome, normalized, obsCount>>
    /\ UNCHANGED chainRest

ChainNext ==
    \/ ChainCall
    \/ \E k \in DOMAIN flows, data \in ChainResponses : ChainResponse(k, data)
    \/ \E k \in DOMAIN flows, e \in ChainErrors : ChainFailure(k, e)
    \/ \E k \in DOMAIN flows : ChainBackoffElapsed(k)
    \/ ChainTimerFires

ChainSpec ==
    Init /\ [][ChainNext]_vars

\* ------------------------------------------------------------------------
\* The component's render: what is shown for a state

\* render: {uploadId && !isProcessing && (<TimetableResults ... />)}
ResultsShown ==
    Present(uploadId) /\ ~isProcessing

\* ------------------------------------------------------------------------
\* Properties

\* the status texts the poller ends on
TerminalStatus(status) ==
    status \in {"completed", "error"}

\* a promise that has resolved or rejected
Settled(promise) ==
    promise.state \in {"resolved", "rejected"}

\* C1: a loop whose polls all return a non-terminal status rejects with the
\* timeout error right after the 120th poll; exactly 120 polls are issued
\* and no 121st poll is ever scheduled.
C1_TimeoutAfter120Polls ==
    /\ attempts <= 120
    /\ (pc = "sleep" => attempts < 120)
    /\ (pollOutcome = Rejected(MsgTimeout) =>
          /\ attempts = 120
          /\ obsCount = 120
          /\ pc = "idle"
          /\ outcome = Rejected(PrefixGeneration \o MsgTimeout))
    /\ (/\ pollOutcome.state # "none"
        /\ attempts = 120
        /\ obsCount = 120
        /\ ~TerminalStatus(normalized.status)
        => pollOutcome = Rejected(MsgTimeout))

C1_Witness ==
    /\ pollOutcome = Rejected(MsgTimeout)
    /\ attempts = 120
    /\ obsCount = 120
    /\ statusData.status = "processing"

\* C2: every call of generateTimetable eventually resolves or rejects, when
\* every request is answered or fails and every timer fires.
C2_EveryCallSettles ==
    (outcome.state = "pending") ~> Settled(outcome)

C2_Witness ==
    /\ outcome.state = "resolved"
    /\ attempts = 120

\* the state of the generation flow
Phase ==
    IF outcome.state = "none" THEN "Idle"
    ELSE IF outcome.state = "resolved" THEN "Completed"
    ELSE IF outcome.state = "rejected"
         THEN IF outcome.error = PrefixGeneration \o MsgTimeout
              THEN "TimedOut" ELSE "Failed"
    ELSE IF pollOutcome.state = "none" THEN "Starting"
    ELSE "Polling"

TerminalPhase ==
    Phase \in {"Completed", "Failed", "TimedOut"}

\* the values a flow leaves behind: requests, observer calls, outcome
FlowTrace ==
    <<pc, caller, calls, attempts, obsCount, obsLast, progress, progressText,
      pollOutcome, outcome>>

\* a step in which a new call of generateTimetable begins a new flow
NewFlowStep ==
    /\ outcome'.state = "pending"
    /\ pollOutcome'.state = "none"
    /\ attempts' = 0
    /\ obsCount' = 0

ClaimedEdges ==
    {<<"Idle", "Starting">>, <<"Starting", "Polling">>,
     <<"Polling", "Completed">>, <<"Polling", "Failed">>,
     <<"Polling", "TimedOut">>}

\* C3 as stated: a flow moves only along Idle -> Starting -> Polling ->
\* {Completed | Failed | TimedOut}, and a terminal flow issues no request,
\* delivers no observer call and keeps its outcome.
C3_OnlyClaimedEdges ==
    [][/\ (Phase' # Phase /\ ~(TerminalPhase /\ NewFlowStep)
             => <<Phase, Phase'>> \in ClaimedEdges)
       /\ (TerminalPhase /\ ~NewFlowStep => FlowTrace' = FlowTrace)]_vars

\* C3 as amended: the same, with the edge Starting -> Failed of a start
\* request that fails or is answered with a code other than 202.
C3_EdgesWithFailedStart ==
    [][/\ (Phase' # Phase /\ ~(TerminalPhase /\ NewFlowStep)
             => <<Phase, Phase'>> \in
                  ClaimedEdges \cup {<<"Starting", "Failed">>})
       /\ (TerminalPhase /\ ~NewFlowStep => FlowTrace' = FlowTrace)]_vars

C3_Witness ==
    /\ Phase = "Failed"
    /\ attempts = 0
    /\ startStatus = 200

\* the claim's transient-connectivity messages
MatchesTransient(msg) ==
    \E sub \in {SubCors, SubBackend, SubNetwork} :
       Includes(ToLowerCase(msg), sub)

\* C4: when all failures of a request are transient, the wrapper invokes it
\* exactly min(retries, attempts-until-success) times, waits 1000*k ms
\* before attempt k+1, and does not wait after the last attempt.
C4_LinearBackoffSchedule ==
    (caller = "bare" /\ \A k \in 1..Len(fails) : MatchesTransient(fails[k]))
    =>
    /\ delays = [k \in 1..Len(delays) |-> 1000 * k]
    /\ (pc = "request" => Len(delays) = calls - 1 /\ calls <= retries)
    /\ (pc = "backoff" => Len(delays) = calls /\ calls < retries)
    /\ (pc = "done" =>
          /\ delays = [k \in 1..(calls - 1) |-> 1000 * k]
          /\ (outcome.state = "resolved" =>
                calls = (IF retries < Len(fails) + 1
                         THEN retries ELSE Len(fails) + 1))
          /\ (outcome.state = "rejected" =>
                calls = retries /\ Len(fails) = retries))

C4_Witness ==
    /\ caller = "bare"
    /\ pc = "done"
    /\ retries = 3
    /\ outcome.state = "rejected"
    /\ fails = <<MsgCorsError, SampleBackendBusy, SampleNetworkError>>
    /\ delays = <<1000, 2000>>

\* C5: a failure whose message is not transient is thrown at once: the
\* request is invoked exactly once when its first failure is of that kind,
\* the wrapper rejects with that error and waits no more, whatever the budget.
C5_NonTransientThrownAtOnce ==
    (caller = "bare" /\ fails # <<>> /\ ~MatchesTransient(fails[Len(fails)]))
    =>
    /\ pc = "done"
    /\ outcome = Rejected(fails[Len(fails)])
    /\ calls = Len(fails)
    /\ Len(delays) = Len(fails) - 1
    /\ (~MatchesTransient(fails[1]) => calls = 1 /\ delays = <<>>)

C5_Witness ==
    /\ caller = "bare"
    /\ retries = MaxRetries
    /\ fails = <<MsgServerErrorOpen \o <<"5","0","0">> \o MsgServerErrorClose>>
    /\ calls = 1
    /\ outcome.state = "rejected"

C7_CapitalCompletedResolves ==
    (/\ pollOutcome.state # "none"
     /\ ~Truthy(statusData.status)
     /\ statusData.State = "Completed"
     /\ statusData.result.type = "object"
     /\ ~statusData.result.timetables.def
     /\ statusData.result.timetables_raw.def)
    =>
    /\ pollOutcome.state = "resolved"
    /\ pollOutcome.value.timetables = statusData.result.timetables_raw

\* the first present of the keys status, State, state
FirstPresentStatus(d) ==
    IF Truthy(d.status) THEN d.status
    ELSE IF Truthy(d.State) THEN d.State
    ELSE IF Truthy(d.state) THEN d.state
    ELSE Undefined

\* C8: the normalized status is the first present of status, State, state;
\* without one, a present result gives completed, else a present error gives
\* error, else processing; progress is the response's if numeric, else 0.
C8_Normalization ==
    pc = "normalized"
    =>
    /\ (FirstPresentStatus(statusData) # Undefined
          => normalized.status = FirstPresentStatus(statusData))
    /\ (/\ FirstPresentStatus(statusData) = Undefined
        /\ statusData.result.type = "object"
        => normalized.status = "completed")
    /\ (/\ FirstPresentStatus(statusData) = Undefined
        /\ statusData.result.type # "object"
        /\ (statusData.error # <<>> \/ statusData.Error # <<>>)
        => normalized.status = "error")
    /\ (/\ FirstPresentStatus(statusData) = Undefined
        /\ statusData.result.type # "object"
        /\ statusData.error = <<>>
        /\ statusData.Error = <<>>
        => normalized.status = "processing")
    /\ (statusData.progress.type = "number"
          => normalized.progress = statusData.progress.value)
    /\ (statusData.progress.type # "number" => normalized.progress = 0)

C8_Witness ==
    /\ pc = "normalized"
    /\ FirstPresentStatus(statusData) = Undefined
    /\ statusData.result.type = "object"
    /\ statusData.error # <<>>
    /\ statusData.progress = JSVal("string", 50)
    /\ normalized.status = "completed"
    /\ normalized.progress = 0

\* the error text a status response supplies
SuppliedError(d) ==
    IF d.error # <<>> THEN d.error ELSE d.Error

\* C9: a poll whose normalized status is error rejects the loop on that
\* poll with the server's error text, or 'Generation failed' without one,
\* and no further poll is issued.
C9_ErrorPollRejects ==
    /\ (pollOutcome.state # "none" /\ normalized.status = "error"
        =>
        /\ pollOutcome =
             Rejected(IF SuppliedError(statusData) # <<>>
                      THEN SuppliedError(statusData) ELSE MsgGenerationFailed)
        /\ pc = "idle"
        /\ obsCount = attempts)
    /\ (/\ pollOutcome.state # "none"
        /\ FirstPresentStatus(statusData) = Undefined
        /\ statusData.result.type # "object"
        /\ statusData.error # <<>>
        => pollOutcome = Rejected(statusData.error))

C9_Witness ==
    /\ FirstPresentStatus(statusData) = Undefined
    /\ statusData.error = SampleInvalidFile
    /\ pollOutcome = Rejected(SampleInvalidFile)
    /\ pc = "idle"

C11_ProgressNeverDecreases ==
    [][(/\ pollOutcome.state = "pending"
        /\ obsCount > 0
        /\ obsCount' > obsCount)
       => /\ obsLast'.percentage >= obsLast.percentage
          /\ progress' >= progress]_vars

\* C12: when the job completes, the last observer call of the loop is
\* {percentage: 100, message: 'Completed'}, every observer call precedes
\* the resolution, and the promise resolves with the merged result of the
\* completing poll.
C12_CompletedUpdateThenResolve ==
    pollOutcome.state = "resolved"
    =>
    /\ obsLast = [percentage |-> 100, message |-> "Completed"]
    /\ progress = 100
    /\ progressText = "Completed"
    /\ trace # <<>>
    /\ trace[Len(trace)] = "resolve"
    /\ \A k \in 1..(Len(trace) - 1) : trace[k] = "progressCallback"
    /\ obsCount = attempts + 1
    /\ IsCompleted(normalized.status)
    /\ pollOutcome = Resolved(MergeResult(statusData.result))
    /\ outcome = pollOutcome
    /\ pc = "idle"

C12_Witness ==
    /\ pollOutcome = Resolved(ResultObject(Some(<<Entry("A", None)>>), None, None))
    /\ outcome = pollOutcome
    /\ startStatus = 202
    /\ attempts = 3
    /\ obsCount = 4
    /\ obsLast = [percentage |-> 100, message |-> "Completed"]

\* C13: on completion of a result with timetables T and parsed_timetables
\* P, every merged T[i] with i < P.length has the rows of P[i], every
\* merged T[i] with i >= P.length has the empty list as rows, and the loop
\* resolves whatever the lengths are.
C13_MergeRule ==
    /\ (pollOutcome.state # "pending" => Settled(pollOutcome) /\ pc = "idle")
    /\ (pc = "idle" => pollOutcome.state = "resolved"
                       /\ outcome.state = "resolved")
    /\ (/\ pc = "idle"
        /\ statusData.result.timetables.def
        /\ statusData.result.parsed_timetables.def
        =>
        /\ pollOutcome.value.timetables.def
        /\ Len(pollOutcome.value.timetables.v)
             = Len(statusData.result.timetables.v)
        /\ \A k \in 1..Len(statusData.result.timetables.v) :
             /\ pollOutcome.value.timetables.v[k].title
                  = statusData.result.timetables.v[k].title
             /\ (k <= Len(statusData.result.parsed_timetables.v)
                   => pollOutcome.value.timetables.v[k].rows
                        = statusData.result.parsed_timetables.v[k].rows)
             /\ (k > Len(statusData.result.parsed_timetables.v)
                   => pollOutcome.value.timetables.v[k].rows = Some(<<>>)))

C13_Witness ==
    /\ pc = "idle"
    /\ pollOutcome.state = "resolved"
    /\ statusData.result.timetables
         = Some(<<Entry("A", None), Entry("B", Some(<<"old">>))>>)
    /\ statusData.result.parsed_timetables = Some(<<Parsed(Some(<<"r1">>))>>)
    /\ pollOutcome.value.timetables
         = Some(<<Entry("A", Some(<<"r1">>)), Entry("B", Some(<<>>))>>)

\* C14 as stated: a poller that ends on a terminal status has exactly one
\* of result and error: a completed outcome resolves with a non-null
\* result, an error outcome carries an error and no result.
C14_ExactlyOneOfResultAndError ==
    /\ (pollOutcome.state = "resolved"
          => pollOutcome.value.type = "object")
    /\ (pollOutcome.state = "rejected" /\ IsError(normalized.status)
          => /\ pollOutcome.error # <<>>
             /\ pollOutcome.value.type = "undefined")

\* C15: when a status poll throws out of the retry wrapper, the poller
\* rejects on that poll and polls no more: with the dedicated CORS-policy
\* message when the thrown message contains 'CORS' in exactly that case,
\* and otherwise with the thrown error unchanged.
C15_PollThrowRejects ==
    [][\A e \in AxiosErrors :
         (PollFailure(e) /\ pc' # "backoff")
         =>
         /\ pollOutcome' =
              (IF Includes(ResponseInterceptor(e), <<"C","O","R","S">>)
               THEN Rejected(
                 <<"C","O","R","S"," ","p","o","l","i","c","y"," ","i","s"," ",
                   "b","l","o","c","k","i","n","g"," ","r","e","q","u","e","s",
                   "t","s"," ","t","o"," ","t","h","e"," ","b","a","c","k","e",
                   "n","d","."," ","P","l","e","a","s","e"," ","c","h","e","c",
                   "k"," ","t","h","e"," ","s","e","r","v","e","r"," ","c","o",
                   "n","f","i","g","u","r","a","t","i","o","n",".">>)
               ELSE Rejected(ResponseInterceptor(e)))
         /\ pc' = "idle"
         /\ attempts' = attempts
         /\ obsCount' = obsCount]_vars

C15_Witness ==
    /\ pollOutcome = Rejected(SampleCorsPreflight)
    /\ trace = <<"reject">>
    /\ pc = "idle"
    /\ attempts = 2

\* the job identifier as the claims read it: the first present of
\* upload_id, uploadId, id at the root, else the first present of the same
\* keys under meta
ClaimedUploadId(data) ==
    IF Present(data.upload_id) THEN data.upload_id
    ELSE IF Present(data.uploadId) THEN data.uploadId
    ELSE IF Present(data.id) THEN data.id
    ELSE IF data.meta.def /\ Present(data.meta.upload_id)
         THEN data.meta.upload_id
    ELSE IF data.meta.def /\ Present(data.meta.uploadId)
         THEN data.meta.uploadId
    ELSE IF data.meta.def /\ Present(data.meta.id) THEN data.meta.id
    ELSE None

\* C16 as stated: uploadFile resolves with the first present of upload_id,
\* uploadId, id at the response root, else with the first present of the
\* same keys under meta; a response with the id only under meta succeeds
\* with that id.
C16_IdFromRootThenMeta ==
    (op = "uploadFile" /\ Present(ClaimedUploadId(uploadData)))
    =>
    /\ outcome.state = "resolved"
    /\ outcome.value.uploadId = ClaimedUploadId(uploadData)
    /\ currentUploadId = ClaimedUploadId(uploadData)

\* C17 as stated: for an upload response without a job identifier under
\* any accepted key, the upload rejects and its error carries the
\* serialized raw response.
C17_MissingIdErrorCarriesResponse ==
    (/\ op = "uploadFile"
     /\ caught = MsgUploadIdNotReturned
     /\ ~Present(ClaimedUploadId(uploadData)))
    =>
    /\ outcome.state = "rejected"
    /\ Includes(outcome.error, Stringify(uploadData))

\* the places at which sub occurs in s
Occurrences(s, sub) ==
    {k \in 0..(Len(s) - Len(sub)) : SubSeq(s, k + 1, k + Len(sub)) = sub}

\* the context prefix of an exported operation
ContextPrefix(name) ==
    IF name = "uploadFile"
    THEN <<"F","i","l","e"," ","u","p","l","o","a","d"," ","f","a","i","l",
           "e","d",":"," ">>
    ELSE IF name = "generateTimetable"
    THEN <<"T","i","m","e","t","a","b","l","e"," ","g","e","n","e","r","a",
           "t","i","o","n"," ","f","a","i","l","e","d",":"," ">>
    ELSE <<"D","o","w","n","l","o","a","d"," ","f","a","i","l","e","d",":",
           " ">>

\* C18: every rejection of uploadFile, generateTimetable and
\* downloadTimetable is the operation's context prefix followed by the
\* message of the error its catch block caught, for polling errors too,
\* and the prefix occurs in it exactly once.
C18_ContextPrefixOnce ==
    /\ (outcome.state = "rejected"
        =>
        /\ op \in {"uploadFile", "generateTimetable", "downloadTimetable"}
        /\ caught # <<>>
        /\ outcome.error = ContextPrefix(op) \o caught
        /\ Occurrences(outcome.error, ContextPrefix(op)) = {0})
    /\ (pollOutcome.state = "rejected"
        =>
        /\ op = "generateTimetable"
        /\ outcome = Rejected(ContextPrefix(op) \o pollOutcome.error))

C18_Witness ==
    /\ op = "generateTimetable"
    /\ pollOutcome = Rejected(MsgCorsPolicy)
    /\ outcome.state = "rejected"
    /\ outcome.error = PrefixGeneration \o MsgCorsPolicy
    /\ urlCount = 1

\* s ends with the text suffix
EndsWith(s, suffix) ==
    /\ Len(s) >= Len(suffix)
    /\ SubSeq(s, Len(s) - Len(suffix) + 1, Len(s)) = suffix

\* C19 as stated: the filename of a download ends in .pdf when the format
\* is 'pdf' in any letter case, and in .xlsx for every other format.
C19_ExtensionFromFoldedFormat ==
    (op = "downloadTimetable" /\ outcome.state = "resolved")
    =>
    /\ (ToLowerCase(format) = <<"p","d","f">>
          => EndsWith(filename, <<".","p","d","f">>))
    /\ (ToLowerCase(format) # <<"p","d","f">>
          => EndsWith(filename, <<".","x","l","s","x">>))

\* the positions of an effect in the trace of a handler run
Positions(effect) ==
    {k \in 1..Len(trace) : trace[k] = effect}

\* C20: every object URL a download creates is revoked by the same call,
\* after the click and before the call resolves, so none stays live; a
\* download whose request fails creates no object URL and clicks nothing.
C20_ObjectUrlReleased ==
    /\ [](/\ liveUrls = {}
          /\ clicks = urlCount
          /\ (op = "downloadTimetable" /\ outcome.state = "resolved"
              =>
              /\ urlCount > 0
              /\ Cardinality(Positions("createObjectURL")) = 1
              /\ Cardinality(Positions("revokeObjectURL")) = 1
              /\ \A c \in Positions("createObjectURL"),
                    k \in Positions("click"),
                    r \in Positions("revokeObjectURL"),
                    d \in Positions("resolve") : c < k /\ k < r /\ r < d)
          /\ (op = "downloadTimetable" /\ outcome.state = "rejected"
              => Positions("createObjectURL") = {}
                 /\ Positions("click") = {}))
    /\ [][\A e \in AxiosErrors :
            DownloadFailure(e)
            => /\ urlCount' = urlCount
               /\ clicks' = clicks
               /\ liveUrls' = liveUrls]_vars

C20_Witness ==
    /\ op = "downloadTimetable"
    /\ outcome.state = "resolved"
    /\ urlCount = 2
    /\ clicks = 2
    /\ liveUrls = {}
    /\ trace = <<"createObjectURL", "click", "revokeObjectURL", "resolve">>

\* C21: getTimeSlots never rejects: it resolves with the server's data when
\* the GET succeeds and with the fixed list of seven slots when the GET
\* fails, whatever the failure, after the retry wrapper has given up.
C21_TimeSlotsNeverReject ==
    op = "getTimeSlots"
    =>
    /\ outcome.state \in {"pending", "resolved"}
    /\ (outcome.state = "pending" <=> pc \in {"request", "backoff"})
    /\ (outcome.state = "resolved" /\ caught = <<>>
          => outcome.value \in TimeSlotResponses)
    /\ (outcome.state = "resolved" /\ caught # <<>>
          => /\ Len(outcome.value) = 7
             /\ outcome.value[1] = [start |-> "09:00", end |-> "10:00",
                                    label |-> "9:00 AM"]
             /\ outcome.value[7] = [start |-> "16:00", end |-> "17:00",
                                    label |-> "4:00 PM"])
    /\ (caught # <<>> => outcome.state = "resolved")

C21_Witness ==
    /\ op = "getTimeSlots"
    /\ outcome.state = "resolved"
    /\ caught = MsgCannotReach
    /\ Len(outcome.value) = 7
    /\ pc = "idle"

\* C22: every generation the component starts uses the handle obtained by
\* uploading the file that is selected at that moment; after a new file is
\* selected the handle of the file before it starts no later generation
C22_HandleOfSelectedFile ==
    \A k \in DOMAIN flows :
        flows[k].stage = "generate"
        => /\ flows[k].selected # Null
           /\ flows[k].handle = Some(HandleOf(flows[k].selected))

\* C23: at most one upload/generation flow is in flight; while isProcessing
\* is true Generate and Cancel are disabled, handleGenerate returns at its
\* first line, and no step puts a further request in flight
C23_OneFlowAtATime ==
    /\ [](/\ Len(flows) <= 1
          /\ (flows # <<>> => isProcessing)
          /\ (isProcessing => GenerateDisabled /\ CancelDisabled)
          /\ (isProcessing /\ selectedFile # Null => GenerateGuard))
    /\ [][isProcessing => Len(flows') <= Len(flows)]_vars

C23_Witness ==
    /\ isProcessing
    /\ Len(flows) = 1
    /\ flows[1].stage = "generate"
    /\ selectedFile # Null
    /\ generations # ""
    /\ ~Present(uploadId)
    /\ GenerateDisabled
    /\ CancelDisabled

\* C24: two concurrent generateTimetable/pollForCompletion calls for the same
\* handle are independent: a step of one call (its start, a poll, a progress
\* callback, its timeout or failure; each changes the record of that call)
\* leaves the attempt count, the callback count and the outcome of the other
\* call as they were; a call counts its own polls and times out on its own
\* 120th poll
C24_IndependentLoops ==
    /\ [](\A l \in LoopIds :
            /\ (loops[l].pc \in {"request", "sleep"}
                => /\ loops[l].outcome = Pending
                   /\ Attempts(l) \in 1..maxAttempts
                   /\ loops[l].obsCount
                        = Attempts(l) - (IF loops[l].pc = "request"
                                         THEN 1 ELSE 0))
            /\ (loops[l].outcome = Rejected(GenerationCatch(MsgTimeout))
                => Attempts(l) = 120 /\ loops[l].obsCount = 120))
    /\ [][\A l \in LoopIds : \A m \in LoopIds \ {l} :
            loops'[m] # loops[m]
            => /\ counters'[AttemptScope(l)] = counters[AttemptScope(l)]
               /\ loops'[l] = loops[l]]_vars

C24_Witness ==
    /\ loops[1].outcome = Rejected(GenerationCatch(MsgTimeout))
    /\ counters[AttemptScope(1)] = 120
    /\ loops[2].pc = "sleep"
    /\ counters[AttemptScope(2)] = 2
    /\ loops[2].obsCount = 2

\* the text 'Server error (<status>)'
ServerErrorText(status) ==
    <<"S","e","r","v","e","r"," ","e","r","r","o","r"," ","(">>
      \o NumToString(status) \o <<")">>

\* a failure with a network error code or message
NetworkFailure(e) ==
    e.code = "ERR_NETWORK" \/ Includes(e.message, SubNetworkError)

\* the three classes the claim names first, for the failure e and the message
\* msg of the error thrown
ClassifiedAsClaimed(e, msg) ==
    /\ (~e.response /\ NetworkFailure(e) => msg = MsgCannotReach)
    /\ (e.response /\ e.status = 0 => msg = MsgCorsError)
    /\ (e.response /\ e.status # 0
        => msg = IF e.dataMessage # <<>> THEN e.dataMessage
                 ELSE IF e.dataError # <<>> THEN e.dataError
                 ELSE ServerErrorText(e.status))

\* C25 (as stated): ... and anything else yields an error with the underlying
\* message
C25_ClassificationAsStated ==
    thrown.def
    => /\ ClassifiedAsClaimed(axiosError, thrown.v)
       /\ (~axiosError.response /\ ~NetworkFailure(axiosError)
           => thrown.v = axiosError.message)

\* C25 (amended): no response and a network error code/message gives the
\* backend-unreachable error; a response with status 0 the CORS error; any
\* other response body.message, else body.error, else 'Server error
\* (<status>)'; anything else the underlying message, or 'An unexpected error
\* occurred' when the underlying error has no message
C25_Classification ==
    thrown.def
    => /\ ClassifiedAsClaimed(axiosError, thrown.v)
       /\ (~axiosError.response /\ ~NetworkFailure(axiosError)
           => thrown.v = IF axiosError.message # <<>>
                         THEN axiosError.message
                         ELSE MsgUnexpected)

C25_Witness ==
    /\ thrown.def
    /\ axiosError.response
    /\ axiosError.status = 500
    /\ axiosError.dataMessage = <<>>
    /\ axiosError.dataError = SampleInvalidFile
    /\ thrown.v = SampleInvalidFile

\* the classes of the transport's classification, read off the failure
NetworkUnreachable(e) ==
    e.request /\ ~e.response /\ NetworkFailure(e)

CorsRejected(e) ==
    e.response /\ e.status = 0

HttpErrorResponse(e) ==
    e.response /\ e.status >= 400

RequestTimeout(e) ==
    ~e.response /\ e.code = "ECONNABORTED"

\* C26: the wrapper retries exactly the connectivity classes: a failure that
\* is network-unreachable or CORS-rejected is retried while budget remains,
\* and a failure that is an HTTP error response (status >= 400) or a request
\* timeout is never retried, whatever the error body says
C26_RetriesExactlyConnectivity ==
    thrown.def
    => /\ (pc = "idle" /\ outcome.state = "rejected" /\ i < retries - 1
           => ~NetworkUnreachable(axiosError) /\ ~CorsRejected(axiosError))
       /\ (pc = "backoff"
           => /\ NetworkUnreachable(axiosError) \/ CorsRejected(axiosError)
              /\ ~HttpErrorResponse(axiosError)
              /\ ~RequestTimeout(axiosError))

C28_RetriesInsideOnePoll ==
    /\ [](/\ calls <= 3
          /\ attempts <= 120
          /\ statusRequests <= 3 * attempts
          /\ statusRequests <= 360
          /\ (pc = "backoff" => calls < 3 /\ pollOutcome = Pending))
    /\ [][/\ (pc = "backoff"
              => /\ attempts' = attempts
                 /\ calls' = calls + 1
                 /\ statusRequests' = statusRequests + 1
                 /\ pollOutcome' = Pending)
          /\ (pc = "request" /\ i > 0 /\ pc' = "sleep"
              => pollOutcome' = Pending /\ attempts' = attempts)
          /\ (pc = "request" /\ i > 0 /\ pollOutcome'.state = "rejected"
              => \/ pollOutcome'.error = MsgTimeout /\ attempts = 120
                 \/ \E e \in LoopErrors :
                      pollOutcome'.error = PollCatch(ResponseInterceptor(e)))
         ]_vars

C28_Witness ==
    /\ statusRequests = 360
    /\ attempts = 120
    /\ pollOutcome = Rejected(MsgTimeout)

\* C29: when every attempt of the budget fails with a transient error,
\* makeRequestWithRetry rejects with the error of the last attempt as it is:
\* not the error of the first attempt, not another error built from it
C29_LastErrorUnchanged ==
    (/\ caller = "bare"
     /\ pc = "done"
     /\ retries > 0
     /\ Len(fails) = retries
     /\ \A k \in 1..Len(fails) : MatchesTransient(fails[k]))
    =>
    /\ outcome.state = "rejected"
    /\ outcome.error = fails[retries]
    /\ calls = retries

C29_Witness ==
    /\ caller = "bare"
    /\ pc = "done"
    /\ retries = 3
    /\ fails = <<MsgCannotReach, SampleBackendBusy, MsgCorsError>>
    /\ outcome = Rejected(MsgCorsError)

\* the {percentage, message} of the poll that was answered last
PollUpdate ==
    [percentage |-> normalized.progress,
     message |-> IF normalized.message # "" THEN normalized.message
                 ELSE "Processing..."]

\* what C30 says of the polls that do not complete the loop: with every
\* earlier poll answered by a non-terminal status, the observer has been
\* called once per answered poll, first thing after the answer, and not at
\* all for a status request that is in flight, is being retried or has thrown
ObserverOncePerAnsweredPoll ==
    pollOutcome.state # "none"
    => /\ (pc \in {"request", "backoff"} => obsCount = attempts - 1)
       /\ (pc = "sleep"
           => /\ obsCount = attempts
              /\ obsLast = PollUpdate
              /\ trace = <<"progressCallback", "setTimeout">>)
       /\ (pollOutcome.state = "rejected" /\ trace = <<"reject">>
           => obsCount = attempts - 1)
       /\ (pollOutcome.state = "rejected" /\ trace # <<"reject">>
           => /\ obsCount = attempts
              /\ obsLast = PollUpdate
              /\ normalized.status = "error" \/ attempts = 120
              /\ trace = <<"progressCallback", "reject">>)

\* C30 (as stated): the observer is invoked once for every poll that receives
\* a response, before the outcome is acted on, and not for a poll whose
\* request throws
C30_ObserverOncePerPoll ==
    /\ ObserverOncePerAnsweredPoll
    /\ (pollOutcome.state = "resolved"
        => obsCount = attempts /\ trace[1] = "progressCallback")

\* C30 (amended): as above, except that the poll that reports completion
\* invokes the observer twice before it resolves: once with the poll's
\* {percentage, message} and once with {100, 'Completed'}
C30_ObserverPerPoll ==
    /\ ObserverOncePerAnsweredPoll
    /\ (pollOutcome.state = "resolved"
        => /\ obsCount = attempts + 1
           /\ obsLast = [percentage |-> 100, message |-> "Completed"]
           /\ trace = <<"progressCallback", "progressCallback", "resolve">>)

C30_Witness ==
    /\ pollOutcome.state = "rejected"
    /\ normalized.status = "error"
    /\ attempts = 3
    /\ obsCount = 3
    /\ obsLast = [percentage |-> 0, message |-> "Processing..."]
    /\ trace = <<"progressCallback", "reject">>

\* a step in which a flow ends by a failure: a call leaves flows and no
\* completion timer is set
FlowFails ==
    Len(flows') < Len(flows) /\ timers' = timers

\* C31: after any failure of the upload or of the generation the component
\* has left the processing state: isProcessing is false, progress is 0, the
\* progress text is empty, the error shown is the message of the failure, and
\* nothing but the generations choice keeps Generate disabled
C31_FailureLeavesProcessing ==
    [][FlowFails
       => /\ isProcessing' = FALSE
          /\ progress' = 0
          /\ progressText' = ""
          /\ \E err \in UploadErrors \cup GenerationErrors :
               error' = err.message /\ err.message # <<>>
          /\ flows' = <<>>
          /\ ~CancelDisabled'
          /\ (selectedFile' # Null => ~GenerateGuard')
          /\ (selectedFile' # Null /\ generations' # "" => ~GenerateDisabled')
      ]_vars

C31_Witness ==
    /\ ~isProcessing
    /\ progress = 0
    /\ progressText = ""
    /\ error = GenerationCatch(MsgTimeout)
    /\ Present(uploadId)
    /\ selectedFile = FileA
    /\ generations = "5"
    /\ flows = <<>>
    /\ ~GenerateDisabled

\* a step that sends an export request: one more downloadTimetable call
ExportRequested ==
    Cardinality(Downloads(flows')) > Cardinality(Downloads(flows))

\* C32: an export is requested only in a state where a job handle is held and
\* the generated data is non-empty, and for that handle; the Download control
\* is disabled while there is no generated timetable, no job handle, or a
\* flow is processing; handleDownload without a handle or without data sets
\* its error and sends no request
C32_ExportNeedsHandleAndData ==
    /\ []((Len(generatedData) = 0 \/ ~Present(uploadId) \/ isProcessing)
            => DownloadDisabled)
    /\ [][ExportRequested
            => /\ Present(uploadId)
               /\ Len(generatedData) > 0
               /\ flows'[Len(flows')].handle = uploadId
               /\ error' = error
       ]_vars
    /\ [][\A fmt \in HeaderFormats :
            HandleDownload(fmt) /\ ~(Present(uploadId) /\ Len(generatedData) > 0)
              => /\ flows' = flows
                 /\ error' = (IF Present(uploadId) THEN MsgNoGeneratedData
                              ELSE MsgNoUploadId)
       ]_vars

C32_Witness ==
    /\ \E k \in Downloads(flows) : flows[k].handle = Some(SampleIdAbc)
    /\ error = MsgNoUploadId
    /\ selectedFile = FileB
    /\ DownloadDisabled

\* the extension of a file name: the text from its last dot on, nothing when
\* the name has no dot
Extension(name) ==
    IF Dots(name) = {} THEN <<>> ELSE <<".">> \o LastSegment(name)

\* C33: a file is passed to onFileSelect only if its lower-cased extension is
\* in the allowed list and its size does not exceed the maximum, whether it
\* was chosen by browse or by drag-and-drop
C33_OnlyValidFilesSelected ==
    \A k \in DOMAIN trace :
        /\ ToLowerCase(Extension(trace[k].name)) \in AllowedTypes
        /\ trace[k].size <= DefaultMaxSize

\* C34: within one polling loop at most one status request is outstanding at
\* any time, a request and a pending poll timer never coexist, and a poll
\* timer is set only by the step that finishes a response: the response was
\* normalized, the observer was called, and the status found is neither
\* 'completed' nor 'error' below the ceiling; a settled loop has no request
\* and no timer left
C34_OneStatusRequestAtATime ==
    /\ [](/\ Cardinality(Outstanding(flows)) <= 1
          /\ Len(flows) + timers <= 1
          /\ (pollOutcome.state \in {"resolved", "rejected"}
                => Len(flows) + timers = 0))
    /\ [][timers' > timers
            => /\ Len(flows) = 1 /\ flows[1].stage = "request"
               /\ flows' = <<>>
               /\ timers' = 1
               /\ obsCount' = obsCount + 1
               /\ normalized'.status \notin {"completed", "error"}
               /\ attempts < 120
               /\ pollOutcome' = Pending
       ]_vars
    /\ [][Cardinality(Outstanding(flows')) > Cardinality(Outstanding(flows))
            => Outstanding(flows) = {} /\ timers' = 0
       ]_vars

C34_Witness ==
    /\ attempts = 3
    /\ Len(flows) = 1
    /\ flows[1] = StatusCall("request", 2)
    /\ timers = 0
    /\ obsCount = 2
    /\ normalized.status = "failed"
    /\ pollOutcome = Pending

\* a step in which checkStatus handles the response of a poll
PollAnswered ==
    obsCount' # obsCount

\* C35: a poll whose status is any string other than exactly 'completed' or
\* 'error' ('failed', 'done', 'Error', 'Completed', 'processing') is not
\* terminal: by itself it neither resolves nor rejects the loop, the next
\* poll is scheduled, and only the 120-poll ceiling ends the loop on such a
\* poll; a loop resolves only on a poll normalized to 'completed' and rejects
\* only on one normalized to 'error', on a thrown poll or at the ceiling
C35_OtherStatusesNonTerminal ==
    /\ [][PollAnswered /\ normalized'.status \notin {"completed", "error"}
            => IF attempts < 120
               THEN pollOutcome' = Pending /\ timers' = 1 /\ flows' = <<>>
               ELSE pollOutcome' = Rejected(MsgTimeout) /\ timers' = 0
       ]_vars
    /\ [](pollOutcome.state = "resolved" => normalized.status = "completed")
    /\ [](pollOutcome.state = "rejected"
            => \/ normalized.status = "error"
               \/ attempts = 120 /\ pollOutcome = Rejected(MsgTimeout)
               \/ obsCount = attempts - 1)

C35_Witness ==
    /\ normalized.status = "done"
    /\ normalized.result = ResTimetables
    /\ attempts = 2
    /\ obsCount = 2
    /\ timers = 1
    /\ pollOutcome = Pending

\* a status body without status, State and state that carries a result
\* object and an error text
ResultAndErrorNoStatus(data) ==
    /\ ~Truthy(data.status) /\ ~Truthy(data.State) /\ ~Truthy(data.state)
    /\ data.result.type = "object"
    /\ OrElse(data.error, data.Error) # <<>>

\* C36: when a poll response has no status field but carries both a result
\* and an error, the result takes precedence: the poll is normalized to
\* 'completed' and the loop resolves with the result; it does not reject with
\* the error
C36_ResultBeforeError ==
    [][pc = "request" /\ caller = "poll" /\ obsCount' # obsCount
       /\ ResultAndErrorNoStatus(statusData')
         => /\ normalized'.status = "completed"
            /\ normalized'.error # <<>>
            /\ pollOutcome' = Resolved(MergeResult(statusData'.result))
            /\ outcome' = Resolved(MergeResult(statusData'.result))
            /\ pollOutcome'.state = "resolved"
            /\ obsLast' = [percentage |-> 100, message |-> "Completed"]
      ]_vars

C36_Witness ==
    /\ ResultAndErrorNoStatus(statusData)
    /\ statusData.error = SampleSolverCrashed
    /\ normalized.status = "completed"
    /\ pollOutcome = Resolved(ResTimetables)
    /\ attempts = 2
    /\ pc = "idle"

\* the collection the merge works on: timetables, or timetables_raw when the
\* result has no timetables
MergeSource(result) ==
    IF result.timetables.def THEN result.timetables
    ELSE result.timetables_raw

\* C37: the result merge keeps the length and the order of the timetables
\* collection and every field of each entry other than rows; parsed entries
\* at indices beyond the collection's length are ignored; when
\* parsed_timetables is present the rows an entry carried are replaced by the
\* rows of the parsed entry at its index, by [] when that parsed entry is
\* missing; without parsed_timetables the entries are untouched; the other
\* fields of the result stay as they were
C37_MergeFrame ==
    pollOutcome.state = "resolved" /\ statusData.result.type = "object"
    => /\ pollOutcome.value.type = "object"
       /\ pollOutcome.value.timetables_raw = statusData.result.timetables_raw
       /\ pollOutcome.value.parsed_timetables
            = statusData.result.parsed_timetables
       /\ pollOutcome.value.timetables.def
            = MergeSource(statusData.result).def
       /\ MergeSource(statusData.result).def
          => /\ Len(pollOutcome.value.timetables.v)
                  = Len(MergeSource(statusData.result).v)
             /\ \A k \in 1..Len(MergeSource(statusData.result).v) :
                  /\ pollOutcome.value.timetables.v[k].title
                       = MergeSource(statusData.result).v[k].title
                  /\ DOMAIN pollOutcome.value.timetables.v[k]
                       = DOMAIN MergeSource(statusData.result).v[k]
                  /\ pollOutcome.value.timetables.v[k].rows
                       = IF ~statusData.result.parsed_timetables.def
                         THEN MergeSource(statusData.result).v[k].rows
                         ELSE IF k <= Len(statusData.result
                                            .parsed_timetables.v)
                         THEN statusData.result.parsed_timetables.v[k].rows
                         ELSE Some(<<>>)

C37_Witness ==
    /\ pollOutcome.state = "resolved"
    /\ statusData.result.timetables
         = Some(<<Entry("B", Some(<<"old">>)), Entry("A", None)>>)
    /\ statusData.result.parsed_timetables
         = Some(<<Parsed(Some(<<"r1">>))>>)
    /\ pollOutcome.value.timetables
         = Some(<<Entry("B", Some(<<"r1">>)), Entry("A", Some(<<>>))>>)

\* a step in which generateTimetable rejects (a failure reported by a poll,
\* a thrown poll, or the timeout)
GenerationFailsStep ==
    /\ FlowFails
    /\ \E k \in DOMAIN flows :
         flows[k].stage = "generate" /\ flows' = RemoveAt(flows, k)

\* C38: the results view is displayed only when a generation for the held
\* job handle has completed successfully: it is never shown while
\* processing, and it is not shown after a generation that failed or timed
\* out
C38_ResultsOnlyAfterSuccess ==
    /\ [](isProcessing => ~ResultsShown)
    /\ [][GenerationFailsStep => ~ResultsShown']_vars

\* a generateTimetable call of the component is in flight
Generating ==
    \E k \in DOMAIN flows : flows[k].stage = "generate"

\* C39: the progress value displayed is always within 0..100, and from the
\* moment generation starts (progress set to 30) until the flow completes or
\* fails it is within 30..100, whatever the observer is called with; it is
\* 30 when the generation starts and every observer callback leaves it
\* within 30..100
C39_ProgressRange ==
    /\ [](progress \in 0..100)
    /\ [](Generating => progress \in 30..100)
    /\ [][~Generating /\ Generating' => progress' = 30]_vars
    /\ [][Generating /\ Generating' /\ progress' # progress
            => progress' \in 30..100]_vars

C39_Witness ==
    /\ Generating
    /\ progress = 30
    /\ progressText = "Queued"
    /\ isProcessing

====
